---- MODULE Spec2Model ----
(***************************************************************************)
(* Model of the oEmbed provider's request pipeline: the Lambda handler     *)
(* (handlers/oembed.mjs) with the validator, the URL authorizer, the       *)
(* backend integration (getContentMetadata with retryWithBackoff), the     *)
(* response builder and the output formatter.                              *)
(*                                                                         *)
(* JavaScript values are modelled as follows.                              *)
(*  - An object is a function whose DOMAIN is the set of its own keys; a   *)
(*    key that is not in the DOMAIN reads as undefined.                    *)
(*  - Query-string dimension values are sequences of one-character strings *)
(*    so that parseInt and decodeURIComponent can be computed on them.     *)
(*  - A URL string is a record [wf, scheme, host, path, len, encoded]:     *)
(*    whether the WHATWG parser accepts it, its protocol, its hostname (a  *)
(*    sequence of characters), its path segments, the length of the string *)
(*    and whether it arrived percent-encoded as a whole.                   *)
(*  - Metadata field values are tagged records (Str, Num, Null, a URL      *)
(*    value, generated markup).                                            *)
(***************************************************************************)
EXTENDS Integers, Sequences, FiniteSets, TLC

VARIABLES
    queryParams,     \* event.queryStringParameters || {}
    env,             \* process.env (PROVIDER_DOMAIN, NODE_ENV)
    pc,              \* position of the handler between its await points
    sanitized,       \* result of sanitizeParams
    validation,      \* result of validateOembedParams
    urlValidation,   \* result of validateAndAuthorizeUrl
    attempt,         \* retryWithBackoff's loop counter
    fetchPath,       \* which return of getContentMetadata produced metadata
    metadata,        \* value getContentMetadata resolved with
    builderThrew,    \* createTypeSpecificResponse threw
    oembedResponse,  \* value createTypeSpecificResponse resolved with
    response,        \* value the handler resolves with
    call,            \* a function called on its own: its name and arguments
    result,          \* the value that call returned
    tracing,         \* the tracing or logging call that threw in this invocation
    invocations,     \* the locals of handler invocations running concurrently
    segment,         \* annotations on the X-Ray segment the invocations share
    events           \* what a called function did so far: calls of fn, delays

vars == <<queryParams, env, pc, sanitized, validation, urlValidation, attempt,
          fetchPath, metadata, builderThrew, oembedResponse, response, call, result,
          tracing, invocations, segment, events>>

\* the variables no step of a single handler invocation writes
aside == <<invocations, segment, events>>

(***************************************************************************)
(* Program constants (utils/constants.mjs).                                *)
(***************************************************************************)
HTTP_OK == 200
HTTP_BAD_REQUEST == 400
HTTP_NOT_FOUND == 404
HTTP_NOT_IMPLEMENTED == 501
HTTP_INTERNAL_SERVER_ERROR == 500

\* a format list that also admits the upper-case spelling
VALID_FORMATS_AnyCase == {"json", "xml", "XML"}

VALID_FORMATS == {"json", "xml"}
DEFAULT_FORMAT == "json"
DEFAULT_CACHE_AGE == 3600
MAX_WIDTH_LIMIT == 2048
MAX_HEIGHT_LIMIT == 2048
MIN_DIMENSION == 1
MAX_URL_LENGTH == 2048
ALLOWED_PROTOCOLS == {"http:", "https:"}
CACHE_DEFAULT_MAX_AGE == 3600

ERROR_MESSAGES ==
    [MISSING_URL |-> "URL parameter is required",
     INVALID_URL |-> "Invalid URL format",
     MALFORMED_URL |-> "Invalid URL",
     UNAUTHORIZED_DOMAIN |-> "Provider Domain Not Found",
     INVALID_FORMAT |-> "Format not implemented",
     INVALID_MAXWIDTH |-> "Maxwidth must be a number between 1 and 2048",
     INVALID_MAXHEIGHT |-> "Maxheight must be a number between 1 and 2048",
     CONTENT_NOT_FOUND |-> "Content not found",
     BACKEND_ERROR |-> "Backend service error",
     MISSING_PROVIDER_DOMAIN |-> "Provider domain not configured",
     MISSING_REQUIRED_FIELD |-> "Required field missing for content type",
     INTERNAL_ERROR |-> "Internal server error"]

\* a status map that answers an unauthorized domain with 401
ERROR_STATUS_MAP_Unauthorized401 ==
    [MISSING_URL |-> HTTP_BAD_REQUEST,
     INVALID_URL |-> HTTP_BAD_REQUEST,
     MALFORMED_URL |-> HTTP_BAD_REQUEST,
     INVALID_FORMAT |-> HTTP_NOT_IMPLEMENTED,
     INVALID_MAXWIDTH |-> HTTP_BAD_REQUEST,
     INVALID_MAXHEIGHT |-> HTTP_BAD_REQUEST,
     UNAUTHORIZED_DOMAIN |-> 401,
     CONTENT_NOT_FOUND |-> HTTP_NOT_FOUND,
     MISSING_PROVIDER_DOMAIN |-> HTTP_INTERNAL_SERVER_ERROR]

\* handlers/oembed.mjs: ERROR_STATUS_MAP[code] || HTTP_STATUS.INTERNAL_SERVER_ERROR
ERROR_STATUS_MAP ==
    [MISSING_URL |-> HTTP_BAD_REQUEST,
     INVALID_URL |-> HTTP_BAD_REQUEST,
     MALFORMED_URL |-> HTTP_BAD_REQUEST,
     INVALID_FORMAT |-> HTTP_NOT_IMPLEMENTED,
     INVALID_MAXWIDTH |-> HTTP_BAD_REQUEST,
     INVALID_MAXHEIGHT |-> HTTP_BAD_REQUEST,
     UNAUTHORIZED_DOMAIN |-> HTTP_NOT_FOUND,
     CONTENT_NOT_FOUND |-> HTTP_NOT_FOUND,
     MISSING_PROVIDER_DOMAIN |-> HTTP_INTERNAL_SERVER_ERROR]

StatusOf(code) ==
    IF code \in DOMAIN ERROR_STATUS_MAP
    THEN ERROR_STATUS_MAP[code]
    ELSE HTTP_INTERNAL_SERVER_ERROR

(***************************************************************************)
(* Character sequences: parseInt(value, 10) and decodeURIComponent.        *)
(***************************************************************************)
DigitChars == <<"0", "1", "2", "3", "4", "5", "6", "7", "8", "9">>
IsDigit(c) == \E i \in 1..10 : DigitChars[i] = c
DigitValue(c) == (CHOOSE i \in 1..10 : DigitChars[i] = c) - 1
IsSpace(c) == c = " "

RECURSIVE IntToChars(_)
IntToChars(n) ==
    IF n < 10 THEN <<DigitChars[n + 1]>>
    ELSE IntToChars(n \div 10) \o <<DigitChars[(n % 10) + 1]>>

\* index of the first character at or after i that is not white space
RECURSIVE SkipSpaces(_, _)
SkipSpaces(s, i) ==
    IF i <= Len(s) /\ IsSpace(s[i]) THEN SkipSpaces(s, i + 1) ELSE i

\* value of the run of digits of s that starts at i, continuing acc
RECURSIVE DigitRun(_, _, _)
DigitRun(s, i, acc) ==
    IF i <= Len(s) /\ IsDigit(s[i])
    THEN DigitRun(s, i + 1, acc * 10 + DigitValue(s[i]))
    ELSE acc

NaN == [nan |-> TRUE, value |-> 0]
Number(n) == [nan |-> FALSE, value |-> n]

\* parseInt(s, 10): leading white space, an optional sign, then the longest
\* run of digits; whatever follows the digits is ignored; NaN without a digit.
ParseInt(s) ==
    LET i0 == SkipSpaces(s, 1)
        signed == i0 <= Len(s) /\ s[i0] \in {"-", "+"}
        i1 == IF signed THEN i0 + 1 ELSE i0
        magnitude == DigitRun(s, i1, 0)
    IN  IF ~(i1 <= Len(s) /\ IsDigit(s[i1])) THEN NaN
        ELSE IF signed /\ s[i0] = "-" THEN Number(0 - magnitude)
        ELSE Number(magnitude)

\* The percent escapes that occur in the modelled inputs, with the character
\* each one decodes to.
PercentTable ==
    [e \in {<<"3", "0">>, <<"3", "1">>, <<"3", "2">>, <<"2", "E">>, <<"2", "D">>} |->
        CASE e = <<"3", "0">> -> "0"
          [] e = <<"3", "1">> -> "1"
          [] e = <<"3", "2">> -> "2"
          [] e = <<"2", "E">> -> "."
          [] e = <<"2", "D">> -> "-"]

\* decodeURIComponent on a character sequence: [ok, str]; ok = FALSE is the
\* URIError thrown for a '%' that is not followed by a known escape.
RECURSIVE DecodeFrom(_, _)
DecodeFrom(s, i) ==
    IF i > Len(s) THEN [ok |-> TRUE, str |-> <<>>]
    ELSE IF s[i] # "%"
         THEN LET rest == DecodeFrom(s, i + 1)
              IN  [ok |-> rest.ok, str |-> <<s[i]>> \o rest.str]
         ELSE IF i + 2 <= Len(s) /\ <<s[i + 1], s[i + 2]>> \in DOMAIN PercentTable
              THEN LET rest == DecodeFrom(s, i + 3)
                   IN  [ok |-> rest.ok,
                        str |-> <<PercentTable[<<s[i + 1], s[i + 2]>>]>> \o rest.str]
              ELSE [ok |-> FALSE, str |-> <<>>]

DecodeURIComponent(s) == DecodeFrom(s, 1)

(***************************************************************************)
(* utils/security.mjs: validateNumeric                                     *)
(***************************************************************************)
\* validateNumeric with the upper limit excluded
validateNumeric_ExclusiveMax(value, min, max) ==
    LET num == ParseInt(value)
    IN  IF num.nan THEN [isValid |-> FALSE]
        ELSE IF num.value < min \/ num.value >= max THEN [isValid |-> FALSE]
        ELSE [isValid |-> TRUE, value |-> num.value]

validateNumeric(value, min, max) ==
    LET num == ParseInt(value)
    IN  IF num.nan THEN [isValid |-> FALSE]
        ELSE IF num.value < min \/ num.value > max THEN [isValid |-> FALSE]
        ELSE [isValid |-> TRUE, value |-> num.value]

(***************************************************************************)
(* JavaScript values and objects.                                          *)
(***************************************************************************)
Undefined == [t |-> "undefined"]
Null == [t |-> "null"]
Num(n) == [t |-> "number", n |-> n]
Str(s) == [t |-> "string", s |-> s]
\* a URL-shaped string (see the module comment); len is the string's length
Url(wf, scheme, host, path, len, encoded) ==
    [t |-> "url", wf |-> wf, scheme |-> scheme, host |-> host, path |-> path,
     len |-> len, encoded |-> encoded]

Has(o, k) == k \in DOMAIN o
Get(o, k) == IF k \in DOMAIN o THEN o[k] ELSE Undefined

\* ToBoolean
Truthy(v) ==
    CASE v.t = "undefined" -> FALSE
      [] v.t = "null" -> FALSE
      [] v.t = "number" -> v.n # 0
      [] v.t = "string" -> v.s # ""
      [] v.t = "chars" -> v.c # <<>>
      [] v.t = "url" -> v.len > 0
      [] OTHER -> TRUE

\* a || b
Or(a, b) == IF Truthy(a) THEN a ELSE b

\* the object o with key k set to v
Put(o, k, v) == [x \in DOMAIN o \cup {k} |-> IF x = k THEN v ELSE o[x]]

\* a query-string value held as a character sequence
Chars(c) == [t |-> "chars", c |-> c]

\* an Array
Array(items) == [t |-> "array", items |-> items]

\* whether a value is a primitive or an array (an object is a function from
\* its keys and has no tag)
IsTagged(v) == "t" \in DOMAIN v

\* v.k for any value v that is neither null nor undefined: an object's
\* property, undefined on a number or a boolean
Prop(v, k) == IF IsTagged(v) THEN Undefined ELSE Get(v, k)

\* v.length: of an array and of a string; undefined on a number
JsLength(v) ==
    CASE v.t = "array" -> Num(Len(v.items))
      [] v.t = "chars" -> Num(Len(v.c))
      [] OTHER -> Undefined

\* the outcome of a call: a returned value, or a thrown Error
Returned(v) == [threw |-> FALSE, value |-> v]
Thrown(message) == [threw |-> TRUE, message |-> message]

(***************************************************************************)
(* core/validator.mjs: validateOembedParams                                *)
(***************************************************************************)
createValidationError(field, message, code) ==
    [field |-> field, message |-> message, code |-> code]

validateDimension(value, fieldName, errorCode) ==
    LET maxLimit == IF fieldName = "maxwidth" THEN MAX_WIDTH_LIMIT ELSE MAX_HEIGHT_LIMIT
        v == validateNumeric(value.c, MIN_DIMENSION, maxLimit)
    IN  IF ~v.isValid
        THEN <<createValidationError(fieldName, ERROR_MESSAGES[errorCode], errorCode)>>
        ELSE <<>>

\* validateOembedParams with maxheight checked before maxwidth
validateOembedParams_HeightFirst(params) ==
    LET urlErrors ==
            IF ~Truthy(Get(params, "url"))
            THEN <<createValidationError("url", ERROR_MESSAGES["MISSING_URL"], "MISSING_URL")>>
            ELSE <<>>
        format == Or(Get(params, "format"), Str(DEFAULT_FORMAT)).s
        formatErrors ==
            IF format \notin VALID_FORMATS
            THEN <<createValidationError("format", ERROR_MESSAGES["INVALID_FORMAT"],
                                         "INVALID_FORMAT")>>
            ELSE <<>>
        maxwidthErrors ==
            IF Has(params, "maxwidth")
            THEN validateDimension(params["maxwidth"], "maxwidth", "INVALID_MAXWIDTH")
            ELSE <<>>
        maxheightErrors ==
            IF Has(params, "maxheight")
            THEN validateDimension(params["maxheight"], "maxheight", "INVALID_MAXHEIGHT")
            ELSE <<>>
        errors == urlErrors \o formatErrors \o maxheightErrors \o maxwidthErrors
    IN  [isValid |-> errors = <<>>, errors |-> errors, format |-> format]

\* validateOembedParams with the format checked before the url
validateOembedParams_FormatFirst(params) ==
    LET urlErrors ==
            IF ~Truthy(Get(params, "url"))
            THEN <<createValidationError("url", ERROR_MESSAGES["MISSING_URL"], "MISSING_URL")>>
            ELSE <<>>
        format == Or(Get(params, "format"), Str(DEFAULT_FORMAT)).s
        formatErrors ==
            IF format \notin VALID_FORMATS
            THEN <<createValidationError("format", ERROR_MESSAGES["INVALID_FORMAT"],
                                         "INVALID_FORMAT")>>
            ELSE <<>>
        maxwidthErrors ==
            IF Has(params, "maxwidth")
            THEN validateDimension(params["maxwidth"], "maxwidth", "INVALID_MAXWIDTH")
            ELSE <<>>
        maxheightErrors ==
            IF Has(params, "maxheight")
            THEN validateDimension(params["maxheight"], "maxheight", "INVALID_MAXHEIGHT")
            ELSE <<>>
        errors == formatErrors \o urlErrors \o maxwidthErrors \o maxheightErrors
    IN  [isValid |-> errors = <<>>, errors |-> errors, format |-> format]

validateOembedParams(params) ==
    LET urlErrors ==
            IF ~Truthy(Get(params, "url"))
            THEN <<createValidationError("url", ERROR_MESSAGES["MISSING_URL"], "MISSING_URL")>>
            ELSE <<>>
        format == Or(Get(params, "format"), Str(DEFAULT_FORMAT)).s
        formatErrors ==
            IF format \notin VALID_FORMATS
            THEN <<createValidationError("format", ERROR_MESSAGES["INVALID_FORMAT"],
                                         "INVALID_FORMAT")>>
            ELSE <<>>
        maxwidthErrors ==
            IF Has(params, "maxwidth")
            THEN validateDimension(params["maxwidth"], "maxwidth", "INVALID_MAXWIDTH")
            ELSE <<>>
        maxheightErrors ==
            IF Has(params, "maxheight")
            THEN validateDimension(params["maxheight"], "maxheight", "INVALID_MAXHEIGHT")
            ELSE <<>>
        errors == urlErrors \o formatErrors \o maxwidthErrors \o maxheightErrors
    IN  [isValid |-> errors = <<>>, errors |-> errors, format |-> format]

(***************************************************************************)
(* core/validator.mjs: sanitizeParams, safeParseInteger                    *)
(***************************************************************************)
safeParseInteger(value) ==
    LET decoded == DecodeURIComponent(value.c)
        parsed == IF decoded.ok THEN ParseInt(decoded.str) ELSE ParseInt(value.c)
    IN  IF parsed.nan THEN Null ELSE Num(parsed.value)

\* decodeURIComponent(params.url): a URL that arrived percent-encoded as a
\* whole is turned into the URL it encodes; the modelled URLs hold no other
\* percent escape; len is the length of the decoded string.
DecodeUrl(u) == IF u.t = "url" THEN [u EXCEPT !.encoded = FALSE] ELSE u

sanitizeParams(params) ==
    LET s0 == IF Truthy(Get(params, "url"))
              THEN [url |-> DecodeUrl(params["url"])]
              ELSE <<>>
        s1 == Put(s0, "format", Or(Get(params, "format"), Str(DEFAULT_FORMAT)))
        s2 == IF Has(params, "maxwidth")
              THEN Put(s1, "maxwidth", safeParseInteger(params["maxwidth"]))
              ELSE s1
        s3 == IF Has(params, "maxheight")
              THEN Put(s2, "maxheight", safeParseInteger(params["maxheight"]))
              ELSE s2
    IN  s3

(***************************************************************************)
(* utils/security.mjs: validateAndSanitizeUrl                              *)
(* core/validator.mjs: validateAndAuthorizeUrl                             *)
(***************************************************************************)
\* new URL(url) succeeds
ParsesAsUrl(u) == u.t = "url" /\ u.wf /\ ~u.encoded

validateAndSanitizeUrl(u) ==
    IF ~Truthy(u) THEN [isValid |-> FALSE, error |-> "URL must be a non-empty string"]
    ELSE IF u.len > MAX_URL_LENGTH
    THEN [isValid |-> FALSE, error |-> "URL exceeds maximum length"]
    ELSE IF ~ParsesAsUrl(u) THEN [isValid |-> FALSE, error |-> "Invalid URL format"]
    ELSE IF u.scheme \notin ALLOWED_PROTOCOLS
    THEN [isValid |-> FALSE, error |-> "Only HTTP and HTTPS protocols are allowed"]
    ELSE [isValid |-> TRUE, sanitizedUrl |-> u, protocol |-> u.scheme,
          hostname |-> u.host, pathname |-> u.path]

\* String.prototype.includes in place of endsWith
EndsWith_Includes(s, suffix) ==
    \E i \in 1..(Len(s) - Len(suffix) + 1) : SubSeq(s, i, i + Len(suffix) - 1) = suffix

\* String.prototype.endsWith on character sequences
EndsWith(s, suffix) ==
    /\ Len(suffix) <= Len(s)
    /\ SubSeq(s, Len(s) - Len(suffix) + 1, Len(s)) = suffix

validateAndAuthorizeUrl(u, environment) ==
    LET urlValidation_ == validateAndSanitizeUrl(u)
        providerDomain == Get(environment, "PROVIDER_DOMAIN")
    IN  IF ~urlValidation_.isValid
        THEN [isValid |-> FALSE, error |-> ERROR_MESSAGES["MALFORMED_URL"],
              code |-> "MALFORMED_URL", details |-> urlValidation_.error]
        ELSE IF ~Truthy(providerDomain)
        THEN [isValid |-> FALSE, error |-> ERROR_MESSAGES["MISSING_PROVIDER_DOMAIN"],
              code |-> "MISSING_PROVIDER_DOMAIN"]
        ELSE IF ~EndsWith(urlValidation_.hostname, providerDomain.c)
        THEN [isValid |-> FALSE, error |-> ERROR_MESSAGES["UNAUTHORIZED_DOMAIN"],
              code |-> "UNAUTHORIZED_DOMAIN",
              details |-> "URL hostname does not match provider domain"]
        ELSE [isValid |-> TRUE, hostname |-> urlValidation_.hostname,
              pathname |-> urlValidation_.pathname]

(***************************************************************************)
(* core/parser.mjs: parseContentUrl, extractContentId, inferContentType,   *)
(* extractContentParams.  A path is the sequence of its non-empty          *)
(* segments; the modelled URLs carry no query string.                      *)
(***************************************************************************)
\* path.includes("/" + name + "/"): the segment is followed by another one
HasDir(path, names) == \E i \in 1..(Len(path) - 1) : path[i] \in names

inferContentType(path) ==
    IF HasDir(path, {"video", "watch", "embed"}) THEN "video"
    ELSE IF HasDir(path, {"photo", "image", "gallery"}) THEN "photo"
    ELSE IF HasDir(path, {"widget", "interactive", "app", "content"}) THEN "rich"
    ELSE "link"

IdDirs == {"video", "content", "post", "article", "media", "embed"}

extractContentId(path) ==
    IF \E i \in 1..(Len(path) - 1) : path[i] \in IdDirs
    THEN path[(CHOOSE i \in 1..(Len(path) - 1) :
                 /\ path[i] \in IdDirs
                 /\ \A j \in 1..(i - 1) : path[j] \notin IdDirs) + 1]
    ELSE IF path # <<>> THEN path[Len(path)]
    ELSE "null"

parseContentUrl(u) ==
    IF ParsesAsUrl(u)
    THEN [success |-> TRUE, url |-> u, hostname |-> u.host, pathname |-> u.path,
          contentId |-> extractContentId(u.path),
          contentType |-> inferContentType(u.path), protocol |-> u.scheme]
    ELSE [success |-> FALSE, url |-> u]

extractContentParams(parsedUrl, maxwidth, maxheight) ==
    [contentId |-> parsedUrl.contentId, contentType |-> parsedUrl.contentType,
     url |-> parsedUrl.url, hostname |-> parsedUrl.hostname,
     pathname |-> parsedUrl.pathname, maxwidth |-> maxwidth,
     maxheight |-> maxheight, protocol |-> parsedUrl.protocol]

(***************************************************************************)
(* integration/getContentMetadata.mjs                                      *)
(***************************************************************************)
MAX_RETRIES == 2

createEmptyMetadata ==
    [type |-> Str("link"), title |-> Str("Content Not Available"), cache_age |-> Num(300)]

\* a URL the example backend builds from the request's protocol and host
SiteUrl(cp, path) == Url(TRUE, cp.protocol, cp.hostname, path, Len(cp.hostname) + 8, FALSE)

\* Math.min(limit || dflt, dflt)
MinOrDefault(limit, dflt) ==
    LET l == Or(limit, Num(dflt)) IN IF l.n < dflt THEN l ELSE Num(dflt)

fetchVideoMetadata(cp) ==
    [type |-> Str("video"), title |-> Str("Video Content"),
     author_name |-> Str("Content Creator"), author_url |-> SiteUrl(cp, <<"creator">>),
     width |-> MinOrDefault(cp.maxwidth, 1920), height |-> MinOrDefault(cp.maxheight, 1080),
     embedUrl |-> SiteUrl(cp, <<"embed", cp.contentId>>),
     thumbnail_url |-> SiteUrl(cp, <<"thumb", cp.contentId>>),
     thumbnail_width |-> Num(320), thumbnail_height |-> Num(180), cache_age |-> Num(3600)]

fetchPhotoMetadata(cp) ==
    [type |-> Str("photo"), title |-> Str("Photo"),
     author_name |-> Str("Photographer"), author_url |-> SiteUrl(cp, <<"photographer">>),
     url |-> SiteUrl(cp, <<"images", cp.contentId>>),
     width |-> MinOrDefault(cp.maxwidth, 1200), height |-> MinOrDefault(cp.maxheight, 800),
     cache_age |-> Num(7200)]

fetchRichContentMetadata(cp) ==
    [type |-> Str("rich"), title |-> Str("Rich Content"),
     author_name |-> Str("Content Author"), author_url |-> SiteUrl(cp, <<"author">>),
     width |-> MinOrDefault(cp.maxwidth, 500), height |-> MinOrDefault(cp.maxheight, 300),
     html |-> Str("<div class=rich-content>Rich interactive content</div>"),
     cache_age |-> Num(1800)]

fetchLinkMetadata(cp) ==
    [type |-> Str("link"), title |-> Str("Link Content"),
     author_name |-> Str("Content Publisher"), author_url |-> SiteUrl(cp, <<"publisher">>),
     cache_age |-> Num(3600)]

\* the example implementation shipped with the repository
fetchContentFromBackend(cp) ==
    CASE cp.contentType = "video" -> fetchVideoMetadata(cp)
      [] cp.contentType = "photo" -> fetchPhotoMetadata(cp)
      [] cp.contentType = "rich" -> fetchRichContentMetadata(cp)
      [] OTHER -> fetchLinkMetadata(cp)

\* url.includes("/video/123")
PathIncludes(path, dir, id) ==
    \E i \in 1..(Len(path) - 1) : path[i] = dir /\ path[i + 1] = id

TestSite == <<"m", "y", "b", ".", "c">>

getTestMetadata(u, cp) ==
    IF PathIncludes(u.path, "video", "123")
    THEN [type |-> Str("video"), title |-> Str("Test Video & Special Characters"),
          author_name |-> Str("Test Author"),
          author_url |-> Url(TRUE, "https:", TestSite, <<"author">>, Len(TestSite) + 8, FALSE),
          width |-> Num(1920), height |-> Num(1080),
          embedUrl |-> Url(TRUE, "https:", TestSite, <<"embed", "123">>, Len(TestSite) + 8, FALSE),
          thumbnail_url |-> Url(TRUE, "https:", TestSite, <<"thumb", "123">>, Len(TestSite) + 8, FALSE),
          thumbnail_width |-> Num(320), thumbnail_height |-> Num(180),
          cache_age |-> Num(3600)]
    ELSE IF PathIncludes(u.path, "content", "123")
    THEN [type |-> Str("rich"), title |-> Str("Test Rich Content"),
          author_name |-> Str("Test Author"),
          author_url |-> Url(TRUE, "https:", TestSite, <<"author">>, Len(TestSite) + 8, FALSE),
          width |-> Num(500), height |-> Num(300),
          html |-> Str("<div>Rich content</div>"), cache_age |-> Num(3600)]
    ELSE [type |-> Str(cp.contentType), title |-> Str("Test"),
          author_name |-> Str("Test Author"),
          width |-> Or(cp.maxwidth, Num(500)), height |-> Or(cp.maxheight, Num(300)),
          cache_age |-> Num(3600)]

InTestEnvironment(environment) ==
    Get(environment, "NODE_ENV") = Str("test") \/ Truthy(Get(environment, "JEST_WORKER_ID"))

(***************************************************************************)
(* oembed/html-generator.mjs (the generators the builder calls)            *)
(***************************************************************************)
IFRAME_SANDBOX == "allow-scripts allow-same-origin allow-presentation"
IFRAME_ALLOW ==
    "accelerometer; autoplay; clipboard-write; encrypted-media; gyroscope; picture-in-picture"
VIDEO_NOT_AVAILABLE == Str("<div class=video-error>Video content not available</div>")

GALLERY_NOT_AVAILABLE == Str("<div class=gallery-error>No images available</div>")
WIDGET_NOT_AVAILABLE == Str("<div class=widget-error>Widget content not available</div>")

\* urlObj.toString(): the href the parser serializes from the components it
\* read, whatever the spelling and length of the string it was given
UrlToString(u) == [t |-> "href", scheme |-> u.scheme, host |-> u.host, path |-> u.path]

\* sanitizeUrl without the protocol test
sanitizeUrl_AnyProtocol(u) ==
    IF ~Truthy(u) THEN Str("")
    ELSE IF ~ParsesAsUrl(u) THEN Str("")
    ELSE UrlToString(u)

\* sanitizeUrl: the re-serialized URL, or "" when it does not parse or its
\* protocol is not http/https
sanitizeUrl(u) ==
    IF ~Truthy(u) THEN Str("")
    ELSE IF ~ParsesAsUrl(u) THEN Str("")
    ELSE IF u.scheme \notin {"http:", "https:"} THEN Str("")
    ELSE UrlToString(u)

\* sanitizeHtmlContent: the text with & < > " ' / replaced by entities
sanitizeHtmlContent(content) ==
    IF ~Truthy(content) THEN Str("") ELSE [t |-> "escaped", of |-> content]

\* generateVideoHtml that prefers the metadata's dimensions to its arguments
generateVideoHtml_MetadataFirst(md, width, height) ==
    LET embedUrl == Or(Get(md, "embedUrl"), Or(Get(md, "url"), Str("")))
        safeWidth == Or(Get(md, "width"), Or(width, Num(640)))
        safeHeight == Or(Get(md, "height"), Or(height, Num(360)))
        sanitizedUrl == sanitizeUrl(embedUrl)
    IN  IF ~Truthy(embedUrl) THEN VIDEO_NOT_AVAILABLE
        ELSE IF ~Truthy(sanitizedUrl) THEN VIDEO_NOT_AVAILABLE
        ELSE [t |-> "html", tag |-> "iframe", src |-> sanitizedUrl,
              width |-> safeWidth, height |-> safeHeight, frameborder |-> "0",
              allowfullscreen |-> TRUE, allow |-> IFRAME_ALLOW,
              sandbox |-> IFRAME_SANDBOX]

generateVideoHtml(md, width, height) ==
    LET embedUrl == Or(Get(md, "embedUrl"), Or(Get(md, "url"), Str("")))
        safeWidth == Or(width, Or(Get(md, "width"), Num(640)))
        safeHeight == Or(height, Or(Get(md, "height"), Num(360)))
        sanitizedUrl == sanitizeUrl(embedUrl)
    IN  IF ~Truthy(embedUrl) THEN VIDEO_NOT_AVAILABLE
        ELSE IF ~Truthy(sanitizedUrl) THEN VIDEO_NOT_AVAILABLE
        ELSE [t |-> "html", tag |-> "iframe", src |-> sanitizedUrl,
              width |-> safeWidth, height |-> safeHeight, frameborder |-> "0",
              allowfullscreen |-> TRUE, allow |-> IFRAME_ALLOW,
              sandbox |-> IFRAME_SANDBOX]

generateRichHtml(md, width, height) ==
    LET safeWidth == Or(width, Or(Get(md, "width"), Num(500)))
        safeHeight == Or(height, Or(Get(md, "height"), Num(300)))
        content == Or(Get(md, "content"), Str("Rich content"))
    IN  IF Truthy(Get(md, "html")) THEN md["html"]
        ELSE [t |-> "html", tag |-> "div", class |-> "rich-content",
              width |-> safeWidth, height |-> safeHeight,
              content |-> sanitizeHtmlContent(content)]

generateWidgetHtml(md, width, height) ==
    LET safeWidth == Or(width, Or(Get(md, "width"), Num(400)))
        safeHeight == Or(height, Or(Get(md, "height"), Num(300)))
        widgetUrl == Or(Get(md, "widgetUrl"), Get(md, "embedUrl"))
        sanitizedUrl == sanitizeUrl(widgetUrl)
        content == Or(Get(md, "html"), Or(Get(md, "content"), Str("Interactive widget")))
    IN  IF Truthy(widgetUrl)
        THEN IF ~Truthy(sanitizedUrl) THEN WIDGET_NOT_AVAILABLE
             ELSE [t |-> "html", tag |-> "iframe", src |-> sanitizedUrl,
                   width |-> safeWidth, height |-> safeHeight, frameborder |-> "0",
                   sandbox |-> IFRAME_SANDBOX]
        ELSE [t |-> "html", tag |-> "div", class |-> "widget-container",
              width |-> safeWidth, height |-> safeHeight,
              content |-> sanitizeHtmlContent(content)]

\* the map callback of generateGalleryHtml: "" or one img element
GalleryImage(image, index) ==
    LET sanitizedUrl == sanitizeUrl(Or(Prop(image, "url"), Prop(image, "src")))
        alt == sanitizeHtmlContent(
                   Or(Prop(image, "alt"),
                      Or(Prop(image, "title"), [t |-> "template", text |-> "Image", n |-> index + 1])))
    IN  IF ~Truthy(sanitizedUrl) THEN Str("")
        ELSE [t |-> "html", tag |-> "img", src |-> sanitizedUrl, alt |-> alt]

\* images.length is read of whatever metadata.images holds; map exists on
\* arrays only; the callback reads image.url of every entry, which throws
\* on null and undefined
generateGalleryHtml(md, width, height) ==
    LET safeWidth == Or(width, Or(Get(md, "width"), Num(600)))
        safeHeight == Or(height, Or(Get(md, "height"), Num(400)))
        images == Or(Get(md, "images"), Array(<<>>))
    IN  IF ~Truthy(JsLength(images)) THEN Returned(GALLERY_NOT_AVAILABLE)
        ELSE IF images.t # "array" THEN Thrown("TypeError: images.map is not a function")
        ELSE IF \E i \in 1..Len(images.items) :
                    IsTagged(images.items[i])
                        /\ images.items[i].t \in {"null", "undefined"}
        THEN Thrown("TypeError: Cannot read properties of null (reading 'url')")
        ELSE LET mapped == [i \in 1..Len(images.items) |->
                               GalleryImage(images.items[i], i - 1)]
                 imageElements == SelectSeq(mapped, Truthy)
             IN  IF imageElements = <<>> THEN Returned(GALLERY_NOT_AVAILABLE)
                 ELSE Returned([t |-> "html", tag |-> "div", class |-> "photo-gallery",
                                width |-> safeWidth, height |-> safeHeight,
                                children |-> imageElements])

(***************************************************************************)
(* oembed/response-builder.mjs                                             *)
(***************************************************************************)
\* calculateConstrainedDimension without the Math.min
calculateConstrainedDimension_NoClamp(originalDimension, constraint) ==
    IF ~Truthy(originalDimension) THEN Or(constraint, Null)
    ELSE originalDimension

calculateConstrainedDimension(originalDimension, constraint) ==
    IF ~Truthy(originalDimension) THEN Or(constraint, Null)
    ELSE IF ~Truthy(constraint) THEN originalDimension
    ELSE IF originalDimension.n < constraint.n THEN originalDimension ELSE constraint

buildBaseResponse(md, environment) ==
    [version |-> Str("1.0"),
     cache_age |-> Num(DEFAULT_CACHE_AGE),
     type |-> Or(Get(md, "type"), Str("rich")),
     provider_name |-> Or(Get(environment, "PROVIDER_NAME"), Str("oEmbed Provider")),
     provider_url |-> Or(Get(environment, "PROVIDER_URL"), Str("https://example.com"))]

addOptionalFields(resp, md) ==
    LET r1 == IF Truthy(Get(md, "title")) THEN Put(resp, "title", md["title"]) ELSE resp
        authorName == Or(Get(md, "author_name"), Get(md, "author"))
        r2 == IF Truthy(authorName) THEN Put(r1, "author_name", authorName) ELSE r1
        authorUrl == Or(Get(md, "author_url"), Get(md, "authorUrl"))
        r3 == IF Truthy(authorUrl) THEN Put(r2, "author_url", authorUrl) ELSE r2
    IN  IF Has(md, "cache_age") THEN Put(r3, "cache_age", md["cache_age"]) ELSE r3

\* addThumbnailFields with the dimensions copied outside the URL test
addThumbnailFields_Unguarded(resp, md) ==
    LET thumbnailUrl == Or(Get(md, "thumbnail_url"), Get(md, "thumbnail"))
        r1 == IF Truthy(thumbnailUrl) THEN Put(resp, "thumbnail_url", thumbnailUrl) ELSE resp
        r2 == IF Truthy(Get(md, "thumbnail_width"))
              THEN Put(r1, "thumbnail_width", md["thumbnail_width"])
              ELSE r1
    IN  IF Truthy(Get(md, "thumbnail_height"))
        THEN Put(r2, "thumbnail_height", md["thumbnail_height"])
        ELSE r2

addThumbnailFields(resp, md) ==
    LET thumbnailUrl == Or(Get(md, "thumbnail_url"), Get(md, "thumbnail"))
    IN  IF Truthy(thumbnailUrl)
        THEN LET r1 == Put(resp, "thumbnail_url", thumbnailUrl)
                 r2 == IF Truthy(Get(md, "thumbnail_width"))
                       THEN Put(r1, "thumbnail_width", md["thumbnail_width"])
                       ELSE r1
             IN  IF Truthy(Get(md, "thumbnail_height"))
                 THEN Put(r2, "thumbnail_height", md["thumbnail_height"])
                 ELSE r2
        ELSE resp

\* createPhotoResponse without the required-field test
createPhotoResponse_NoCheck(baseResponse, md, maxwidth, maxheight) ==
    LET width == Or(calculateConstrainedDimension(Get(md, "width"), maxwidth), Num(800))
        height == Or(calculateConstrainedDimension(Get(md, "height"), maxheight), Num(600))
    IN  Returned(Put(Put(Put(baseResponse, "url", Get(md, "url")), "width", width),
                     "height", height))

createPhotoResponse(baseResponse, md, maxwidth, maxheight) ==
    IF ~Truthy(Get(md, "url")) THEN Thrown("Photo type requires url field")
    ELSE LET width == Or(calculateConstrainedDimension(Get(md, "width"), maxwidth), Num(800))
             height == Or(calculateConstrainedDimension(Get(md, "height"), maxheight), Num(600))
         IN  Returned(Put(Put(Put(baseResponse, "url", md["url"]), "width", width),
                          "height", height))

createVideoResponse(baseResponse, md, maxwidth, maxheight) ==
    IF ~Truthy(Get(md, "embedUrl")) /\ ~Truthy(Get(md, "html"))
    THEN Thrown("Video type requires embedUrl or html field")
    ELSE LET width == Or(calculateConstrainedDimension(Get(md, "width"), maxwidth), Num(640))
             height == Or(calculateConstrainedDimension(Get(md, "height"), maxheight), Num(360))
             html == Or(Get(md, "html"), generateVideoHtml(md, width, height))
         IN  Returned(Put(Put(Put(baseResponse, "html", html), "width", width),
                          "height", height))

createLinkResponse(baseResponse, md) == Returned(baseResponse)

createRichResponse(baseResponse, md, maxwidth, maxheight) ==
    LET width == Or(calculateConstrainedDimension(Get(md, "width"), maxwidth), Num(500))
        height == Or(calculateConstrainedDimension(Get(md, "height"), maxheight), Num(300))
        html == Or(Get(md, "html"), generateRichHtml(md, width, height))
    IN  Returned(Put(Put(Put(Put(baseResponse, "type", Str("rich")), "html", html),
                         "width", width), "height", height))

\* createTypeSpecificResponse that answers an unknown type with the base
\* response as it stands
createTypeSpecificResponse_KeepUnknownType(md, maxwidth, maxheight, environment) ==
    LET baseResponse ==
            addThumbnailFields(addOptionalFields(buildBaseResponse(md, environment), md), md)
        contentType == Or(Get(md, "type"), Str("rich"))
    IN  CASE contentType = Str("photo") ->
                createPhotoResponse(baseResponse, md, maxwidth, maxheight)
          [] contentType = Str("video") ->
                createVideoResponse(baseResponse, md, maxwidth, maxheight)
          [] contentType = Str("link") -> createLinkResponse(baseResponse, md)
          [] contentType = Str("rich") ->
                createRichResponse(baseResponse, md, maxwidth, maxheight)
          [] OTHER -> Returned(baseResponse)

createTypeSpecificResponse(md, maxwidth, maxheight, environment) ==
    LET baseResponse ==
            addThumbnailFields(addOptionalFields(buildBaseResponse(md, environment), md), md)
        contentType == Or(Get(md, "type"), Str("rich"))
    IN  CASE contentType = Str("photo") ->
                createPhotoResponse(baseResponse, md, maxwidth, maxheight)
          [] contentType = Str("video") ->
                createVideoResponse(baseResponse, md, maxwidth, maxheight)
          [] contentType = Str("link") -> createLinkResponse(baseResponse, md)
          [] contentType = Str("rich") ->
                createRichResponse(baseResponse, md, maxwidth, maxheight)
          [] OTHER ->
                createRichResponse(baseResponse, Put(md, "type", Str("rich")),
                                   maxwidth, maxheight)

\* Object.keys of a built response: the keys in the order the builder's
\* statements insert them (template, base, optional fields, thumbnail
\* fields, then the type's own; an assignment to a key the object holds
\* keeps its place)
InsertionOrder ==
    <<"version", "cache_age", "type", "provider_name", "provider_url", "title",
      "author_name", "author_url", "thumbnail_url", "thumbnail_width",
      "thumbnail_height", "url", "html", "width", "height">>

ObjectKeys(value) == SelectSeq(InsertionOrder, LAMBDA k : k \in DOMAIN value)

\* the object with key k deleted
Without(o, k) == [x \in DOMAIN o \ {k} |-> o[x]]

\* a builder that moves metadata.html into the response
createTypeSpecificResponseEffect_TakesHtml(md, maxwidth, maxheight, environment) ==
    LET outcome == createTypeSpecificResponse(md, maxwidth, maxheight, environment)
    IN  [outcome |-> outcome,
         keys |-> IF outcome.threw THEN <<>> ELSE ObjectKeys(outcome.value),
         metadata |-> Without(md, "html")]

\* a builder that coerces an unrecognized type in the object it was given
createTypeSpecificResponseEffect_CoercesInPlace(md, maxwidth, maxheight, environment) ==
    LET outcome == createTypeSpecificResponse(md, maxwidth, maxheight, environment)
    IN  [outcome |-> outcome,
         keys |-> IF outcome.threw THEN <<>> ELSE ObjectKeys(outcome.value),
         metadata |-> IF Or(Get(md, "type"), Str("rich"))
                             \in {Str("photo"), Str("video"), Str("link"), Str("rich")}
                      THEN md
                      ELSE Put(md, "type", Str("rich"))]

\* a call of createTypeSpecificResponse as its caller sees it: the outcome,
\* the keys of the object returned, and the metadata object after the call.
\* The builder and its helpers assign to properties of the response they
\* create and to nothing else; the default branch hands createRichResponse
\* a copy ({ ...metadata, type: "rich" }).
createTypeSpecificResponseEffect(md, maxwidth, maxheight, environment) ==
    LET outcome == createTypeSpecificResponse(md, maxwidth, maxheight, environment)
    IN  [outcome |-> outcome,
         keys |-> IF outcome.threw THEN <<>> ELSE ObjectKeys(outcome.value),
         metadata |-> md]

(***************************************************************************)
(* core/formatter.mjs                                                      *)
(***************************************************************************)
JSON_HEADERS == [ContentType |-> "application/json", AccessControlAllowOrigin |-> "*"]
XML_HEADERS == [ContentType |-> "text/xml", AccessControlAllowOrigin |-> "*"]

\* "max-age=" + (data.cache_age || CACHE_CONTROL.DEFAULT_MAX_AGE)
CacheControl(data) == [maxAge |-> Or(Get(data, "cache_age"), Num(CACHE_DEFAULT_MAX_AGE))]

\* JSON.stringify(data): one member per entry whose value is not undefined
\* (null is written as null)
JsonStringify(data) ==
    [k \in {x \in DOMAIN data : data[x].t # "undefined"} |-> data[k]]

formatJsonResponse(data) ==
    [statusCode |-> HTTP_OK,
     headers |-> JSON_HEADERS @@ [CacheControl |-> CacheControl(data)],
     body |-> [format |-> "json", data |-> JsonStringify(data)]]

\* one element per entry whose value is neither undefined nor null
generateXmlBody(data) ==
    [k \in {x \in DOMAIN data : data[x].t \notin {"undefined", "null"}} |-> data[k]]

formatXmlResponse(data) ==
    [statusCode |-> HTTP_OK,
     headers |-> XML_HEADERS @@ [CacheControl |-> CacheControl(data)],
     body |-> [format |-> "xml", oembed |-> generateXmlBody(data)]]

formatResponse(data, format) ==
    IF format = Str("xml") THEN formatXmlResponse(data) ELSE formatJsonResponse(data)

getErrorCodeFromStatus(statusCode) ==
    CASE statusCode = 400 -> "BAD_REQUEST"
      [] statusCode = 401 -> "UNAUTHORIZED"
      [] statusCode = 404 -> "NOT_FOUND"
      [] statusCode = 501 -> "NOT_IMPLEMENTED"
      [] statusCode = 500 -> "INTERNAL_SERVER_ERROR"
      [] OTHER -> "UNKNOWN_ERROR"

\* formatErrorResponse that writes details whatever its value
formatErrorResponse_AlwaysDetails(statusCode, message, format, code, details) ==
    LET error == [code |-> IF code # "" THEN code ELSE getErrorCodeFromStatus(statusCode),
                  message |-> message,
                  timestamp |-> "timestamp",
                  requestId |-> "requestId",
                  details |-> details]
    IN  IF format = Str("xml")
        THEN [statusCode |-> statusCode, headers |-> XML_HEADERS,
              body |-> [format |-> "xml", error |-> error]]
        ELSE [statusCode |-> statusCode, headers |-> JSON_HEADERS,
              body |-> [format |-> "json", error |-> error]]

\* details is Undefined when the caller passes none
formatErrorResponse(statusCode, message, format, code, details) ==
    LET core == [code |-> IF code # "" THEN code ELSE getErrorCodeFromStatus(statusCode),
                 message |-> message,
                 timestamp |-> "timestamp",
                 requestId |-> "requestId"]
        error == IF Truthy(details) THEN core @@ [details |-> details] ELSE core
    IN  IF format = Str("xml")
        THEN [statusCode |-> statusCode, headers |-> XML_HEADERS,
              body |-> [format |-> "xml", error |-> error]]
        ELSE [statusCode |-> statusCode, headers |-> JSON_HEADERS,
              body |-> [format |-> "json", error |-> error]]

(***************************************************************************)
(* Inputs.                                                                 *)
(***************************************************************************)
MaxOverLimit == 1   \* dimension values run up to the limit plus this
MaxDimension == 10  \* largest dimension passed to calculateConstrainedDimension
MaxImages == 2      \* longest images array passed to generateGalleryHtml
MaxCalls == 2       \* calls of createTypeSpecificResponse on one metadata object
MaxInvocations == 2 \* handler invocations running concurrently
MaxHostLen == 5     \* longest generated hostname (SpecAuthorize)
MaxRetryOption == 3 \* largest maxRetries option passed to retryWithBackoff (SpecRetry)

None == [t |-> "none"]

\* an object holding key k with one of the values, or not holding it
Optional(k, values) == {<<>>} \cup {[x \in {k} |-> v] : v \in values}

ProviderDomain == <<"a", ".", "b">>
HostAlphabet == {"a", "b", "."}

WellFormedHost(h) ==
    /\ h # <<>>
    /\ h[1] # "." /\ h[Len(h)] # "."
    /\ \A i \in 1..(Len(h) - 1) : ~(h[i] = "." /\ h[i + 1] = ".")

Hostnames(n) ==
    {h \in UNION {[1..k -> HostAlphabet] : k \in 1..n} : WellFormedHost(h)}

\* the provider domain, a subdomain of it, a different domain that has it
\* as a string suffix, and an unrelated domain
HandlerHosts ==
    {ProviderDomain, <<"b", ".">> \o ProviderDomain, <<"a">> \o ProviderDomain,
     <<"b", ".", "a">>}

Paths == {<<"video", "123">>, <<"photo", "7">>, <<"article", "456">>}
Schemes == {"https:", "ftp:"}
UrlLengths == {MAX_URL_LENGTH, MAX_URL_LENGTH + 1}

UrlsOver(hosts) ==
    {Url(TRUE, sc, h, p, n, e) :
        sc \in Schemes, h \in hosts, p \in Paths, n \in UrlLengths, e \in BOOLEAN}

\* "invalid-url": a non-empty string the URL parser rejects
GarbageUrl == Url(FALSE, "", <<>>, <<>>, 11, FALSE)

DimensionValues == {0, 1} \cup (MAX_WIDTH_LIMIT..(MAX_WIDTH_LIMIT + MaxOverLimit))

\* decimal integers, a fraction and a non-numeric value
HandlerDimensions ==
    {Chars(IntToChars(n)) : n \in DimensionValues}
        \cup {Chars(<<"1", "2", ".", "5">>), Chars(<<"a", "b", "c">>)}

\* also: signs, digits followed by other characters, white space, percent
\* escapes and the empty string
ValidatorDimensions ==
    HandlerDimensions
        \cup {Chars(<<"-">> \o IntToChars(n)) : n \in DimensionValues}
        \cup {Chars(<<"+">> \o IntToChars(n)) : n \in DimensionValues}
        \cup {Chars(IntToChars(n) \o <<"a", "b", "c">>) : n \in DimensionValues}
        \cup {Chars(IntToChars(n) \o <<".", "5">>) : n \in DimensionValues}
        \cup {Chars(<<" ">> \o IntToChars(n)) : n \in DimensionValues}
        \cup {Chars(<<>>), Chars(<<"1", "%", "3", "0">>), Chars(<<"%", "3", "1">>),
              Chars(<<"1", "%">>), Chars(<<"2", "0", "4", "%", "3", "0", "%", "3", "0">>)}

Formats == {Str(""), Str("json"), Str("xml"), Str("XML"), Str("yaml")}

Requests(urls, formats, dimensions) ==
    {u @@ f @@ w @@ h :
        u \in Optional("url", urls), f \in Optional("format", formats),
        w \in Optional("maxwidth", dimensions), h \in Optional("maxheight", dimensions)}

Environments ==
    {[PROVIDER_NAME |-> Str("Example Provider")] @@ d @@ n :
        d \in Optional("PROVIDER_DOMAIN", {Chars(ProviderDomain)}),
        n \in Optional("NODE_ENV", {Str("test")})}

\* what a customised backend may return besides the shipped example's
\* results: metadata lacking required fields, with unusable or unsafe
\* embed URLs, with thumbnail dimensions but no thumbnail URL, with an
\* unknown or missing type
GoodUrl == Url(TRUE, "https:", ProviderDomain, <<"media", "1">>, Len(ProviderDomain) + 8, FALSE)
ScriptUrl == Url(TRUE, "javascript:", <<>>, <<"alert">>, Len(ProviderDomain) + 8, FALSE)

\* one URL of the provider's site
SiteRequestUrl ==
    Url(TRUE, "https:", ProviderDomain, <<"video", "123">>, Len(ProviderDomain) + 18, FALSE)

ProductionEnv ==
    [PROVIDER_NAME |-> Str("Example Provider"), PROVIDER_DOMAIN |-> Chars(ProviderDomain)]

\* metadata objects by field: each field absent or holding one of a few
\* values (an empty string, a usable or an unusable URL, zero)
BuilderMetadata ==
    {ty @@ u @@ e @@ h @@ tu @@ ta @@ tw @@ th @@ w @@ ht @@ c :
        ty \in Optional("type", {Str("photo"), Str("video"), Str("link"), Str("rich"),
                                 Str("audio"), Str("")}),
        u \in Optional("url", {Str(""), GoodUrl}),
        e \in Optional("embedUrl", {GoodUrl, ScriptUrl}),
        h \in Optional("html", {Str(""), Str("<p>x</p>")}),
        tu \in Optional("thumbnail_url", {GoodUrl}),
        ta \in Optional("thumbnail", {GoodUrl}),
        tw \in Optional("thumbnail_width", {Num(320)}),
        th \in Optional("thumbnail_height", {Num(180)}),
        w \in Optional("width", {Num(1920)}),
        ht \in Optional("height", {Num(1080)}),
        c \in Optional("cache_age", {Num(0), Num(600), Null})}

CustomMetadata ==
    {[type |-> Str("photo")],
     [type |-> Str("photo"), url |-> Str("")],
     [type |-> Str("photo"), url |-> GoodUrl, thumbnail |-> GoodUrl,
      thumbnail_width |-> Num(320)],
     [type |-> Str("video"), title |-> Str("No embed")],
     [type |-> Str("video"), embedUrl |-> ScriptUrl, width |-> Num(1920)],
     [type |-> Str("link"), thumbnail_width |-> Num(320), thumbnail_height |-> Num(180)],
     [type |-> Str("audio"), content |-> Str("<b>x</b>"), cache_age |-> Num(0)],
     [title |-> Str("untyped"), cache_age |-> Null]}

\* values a URL field of the metadata may hold: usable http and https
\* URLs, a javascript: URL, a string that is no URL, "" and a number
HttpUrl == Url(TRUE, "http:", ProviderDomain, <<"media", "2">>, Len(ProviderDomain) + 7, FALSE)
GeneratorUrls == {GoodUrl, HttpUrl, ScriptUrl, GarbageUrl, Str(""), Num(5)}

\* entries of metadata.images: null, {}, and objects with url, src, alt, title
ImageEntries ==
    {Null,
     [x \in {} |-> Undefined],
     [url |-> GoodUrl],
     [src |-> HttpUrl, alt |-> Str("<i>")],
     [url |-> ScriptUrl],
     [url |-> ScriptUrl, src |-> GoodUrl],
     [url |-> GarbageUrl, title |-> Str("t")]}

\* metadata.images: null, "", a non-empty string, a number, or an array
ImagesValues ==
    {Null, Chars(<<>>), Chars(<<"a", "b">>), Num(5)}
        \cup {Array(s) : s \in UNION {[1..n -> ImageEntries] : n \in 0..MaxImages}}

VideoGeneratorMetadata ==
    {e @@ u @@ w :
        e \in Optional("embedUrl", GeneratorUrls),
        u \in Optional("url", {GoodUrl, ScriptUrl}),
        w \in Optional("width", {Num(1920)})}

RichGeneratorMetadata ==
    {h @@ c @@ w :
        h \in Optional("html", {Str(""), Str("<p>x</p>")}),
        c \in Optional("content", {Str("<b>x</b>")}),
        w \in Optional("width", {Num(1920)})}

WidgetGeneratorMetadata ==
    {wu @@ e @@ h :
        wu \in Optional("widgetUrl", GeneratorUrls),
        e \in Optional("embedUrl", {GoodUrl, ScriptUrl}),
        h \in Optional("html", {Str("<p>x</p>")})}

GalleryGeneratorMetadata ==
    {i @@ w : i \in Optional("images", ImagesValues), w \in Optional("width", {Num(1920)})}

\* the width and height arguments of a generator
GeneratorDimensions == {Undefined, Num(300)}

\* metadata objects handed to createTypeSpecificResponse called on its own
CallerMetadata ==
    {ty @@ u @@ e @@ h @@ ti @@ tu @@ w :
        ty \in Optional("type", {Str("photo"), Str("video"), Str("link"), Str("rich"),
                                 Str("audio"), Str("")}),
        u \in Optional("url", {Str(""), GoodUrl}),
        e \in Optional("embedUrl", {GoodUrl, ScriptUrl}),
        h \in Optional("html", {Str(""), Str("<p>x</p>")}),
        ti \in Optional("title", {Str("A title")}),
        tu \in Optional("thumbnail_url", {GoodUrl}),
        w \in Optional("width", {Num(1920)})}

(***************************************************************************)
(* handlers/oembed.mjs: the handler, one action per stretch of code        *)
(* between two awaits.  pc is the handler's position; a variable holds     *)
(* None until the handler assigns it.                                      *)
(***************************************************************************)
\* utils/xray.mjs: the segment is None when the SDK is not loaded or no
\* segment is open; otherwise it holds annotations and metadata by key
\* a segment just opened
NewSegment == [annotations |-> [x \in {} |-> Undefined], metadata |-> [x \in {} |-> Undefined]]

\* the segment call named threw at this position of the handler; the catch
\* of addXRayAnnotations and addXRayMetadata discards the error
SegmentCallFails(name) == tracing # None /\ tracing.fails = name /\ tracing.at = pc

addXRayAnnotations(seg, annotations) ==
    IF seg = None \/ SegmentCallFails("segment.addAnnotation") THEN seg
    ELSE [seg EXCEPT !.annotations = annotations @@ seg.annotations]

addXRayMetadata(seg, namespace, md) ==
    IF seg = None \/ SegmentCallFails("segment.addMetadata") THEN seg
    ELSE [seg EXCEPT !.metadata = [x \in {namespace} |-> md] @@ seg.metadata]

\* the annotations the handler writes on entry
RequestAnnotations(params) ==
    [url |-> Or(Get(params, "url"), Str("unknown")),
     format |-> Or(Get(params, "format"), Str("json")),
     hasMaxWidth |-> Truthy(Get(params, "maxwidth")),
     hasMaxHeight |-> Truthy(Get(params, "maxheight"))]

\* the annotations of the handler's catch block
ErrorAnnotations(error) ==
    [success |-> FALSE, errorType |-> "Error", errorMessage |-> error.message]

TypeOK ==
    /\ pc \in {"start", "authorize", "fetch", "backend", "build", "format", "done", "call"}
    /\ attempt \in 0..MAX_RETRIES
    /\ builderThrew \in BOOLEAN
    /\ fetchPath \in {"none", "parse_failed", "test", "backend", "catch"}

InitWith(requests, environments) ==
    /\ queryParams \in requests
    /\ env \in environments
    /\ pc = "start"
    /\ sanitized = None
    /\ validation = None
    /\ urlValidation = None
    /\ attempt = 0
    /\ fetchPath = "none"
    /\ metadata = None
    /\ builderThrew = FALSE
    /\ oembedResponse = None
    /\ response = None
    /\ call = None
    /\ result = None
    /\ tracing = None
    /\ invocations = None
    /\ segment = None
    /\ events = None

Init ==
    InitWith(Requests({Str(""), GarbageUrl} \cup UrlsOver(HandlerHosts), Formats,
                      HandlerDimensions),
             Environments)

\* Phase 1: sanitizeParams, validateOembedParams, early return on the first
\* validation error
Validate ==
    /\ pc = "start"
    /\ sanitized' = sanitizeParams(queryParams)
    /\ validation' = validateOembedParams(queryParams)
    /\ IF ~validation'.isValid
       THEN LET firstError == validation'.errors[1]
            IN  /\ response' = formatErrorResponse(StatusOf(firstError.code),
                                                   firstError.message,
                                                   Str(validation'.format),
                                                   firstError.code, Undefined)
                /\ segment' = addXRayAnnotations(
                                  addXRayAnnotations(segment, RequestAnnotations(queryParams)),
                                  [validationError |-> firstError.code])
                /\ pc' = "done"
       ELSE /\ pc' = "authorize"
            /\ segment' = addXRayAnnotations(segment, RequestAnnotations(queryParams))
            /\ UNCHANGED response
    /\ UNCHANGED <<invocations, events, tracing, call, result, queryParams, env,
                   urlValidation, attempt, fetchPath, metadata, builderThrew,
                   oembedResponse>>

\* Phase 2 without the early return: the error response is built and the
\* handler goes on to the backend
Authorize_NoEarlyReturn ==
    /\ pc = "authorize"
    /\ urlValidation' = validateAndAuthorizeUrl(sanitized["url"], env)
    /\ IF ~urlValidation'.isValid
       THEN response' = formatErrorResponse(
                           StatusOf(urlValidation'.code), urlValidation'.error,
                           sanitized["format"], urlValidation'.code,
                           IF "details" \in DOMAIN urlValidation'
                           THEN Str(urlValidation'.details) ELSE Undefined)
       ELSE UNCHANGED response
    /\ segment' = IF ~urlValidation'.isValid
                  THEN addXRayAnnotations(segment,
                                          [urlValidationError |-> urlValidation'.code])
                  ELSE segment
    /\ pc' = "fetch"
    /\ UNCHANGED <<invocations, events, tracing, call, result, queryParams, env, sanitized, validation, attempt,
                   fetchPath, metadata, builderThrew, oembedResponse>>

\* Phase 2: validateAndAuthorizeUrl, early return when it fails
Authorize ==
    /\ pc = "authorize"
    /\ urlValidation' = validateAndAuthorizeUrl(sanitized["url"], env)
    /\ IF ~urlValidation'.isValid
       THEN /\ response' = formatErrorResponse(
                               StatusOf(urlValidation'.code), urlValidation'.error,
                               sanitized["format"], urlValidation'.code,
                               IF "details" \in DOMAIN urlValidation'
                               THEN Str(urlValidation'.details) ELSE Undefined)
            /\ segment' = addXRayAnnotations(segment,
                                             [urlValidationError |-> urlValidation'.code])
            /\ pc' = "done"
       ELSE /\ pc' = "fetch"
            /\ UNCHANGED <<response, segment>>
    /\ UNCHANGED <<invocations, events, tracing, call, result, queryParams, env, sanitized, validation, attempt, fetchPath,
                   metadata, builderThrew, oembedResponse>>

ContentParams ==
    extractContentParams(parseContentUrl(sanitized["url"]),
                         Get(sanitized, "maxwidth"), Get(sanitized, "maxheight"))

\* Phase 3, getContentMetadata up to its first await: the URL is parsed; a
\* URL that does not parse yields the empty metadata, the test environment
\* yields the test metadata, otherwise the backend is called
GetContentMetadata ==
    /\ pc = "fetch"
    /\ IF ~parseContentUrl(sanitized["url"]).success
       THEN /\ metadata' = createEmptyMetadata
            /\ fetchPath' = "parse_failed"
            /\ pc' = "build"
       ELSE IF InTestEnvironment(env)
       THEN /\ metadata' = getTestMetadata(sanitized["url"], ContentParams)
            /\ fetchPath' = "test"
            /\ pc' = "build"
       ELSE /\ pc' = "backend"
            /\ UNCHANGED <<metadata, fetchPath>>
    /\ attempt' = 0
    /\ UNCHANGED <<aside, tracing, call, result, queryParams, env, sanitized, validation, urlValidation,
                   builderThrew, oembedResponse, response>>

\* the backend (the customisation point) answers: the shipped example's
\* result, or what a replacement may return
BackendResults == {fetchContentFromBackend(ContentParams)} \cup CustomMetadata

BackendReturns ==
    /\ pc = "backend"
    /\ \E m \in BackendResults : metadata' = m
    /\ fetchPath' = "backend"
    /\ pc' = "build"
    /\ UNCHANGED <<aside, tracing, call, result, queryParams, env, sanitized, validation, urlValidation, attempt,
                   builderThrew, oembedResponse, response>>

\* a retry loop that never gives up: after the last attempt it starts over
BackendThrows_RetryForever ==
    /\ pc = "backend"
    /\ attempt' = (attempt + 1) % (MAX_RETRIES + 1)
    /\ UNCHANGED <<metadata, fetchPath, pc>>
    /\ UNCHANGED <<aside, tracing, call, result, queryParams, env, sanitized, validation, urlValidation,
                   builderThrew, oembedResponse, response>>

\* the backend throws: retryWithBackoff tries again until attempt equals
\* maxRetries, then rethrows; getContentMetadata catches the error and
\* returns the empty metadata
BackendThrows ==
    /\ pc = "backend"
    /\ IF attempt = MAX_RETRIES
       THEN /\ metadata' = createEmptyMetadata
            /\ fetchPath' = "catch"
            /\ pc' = "build"
            /\ UNCHANGED attempt
       ELSE /\ attempt' = attempt + 1
            /\ UNCHANGED <<metadata, fetchPath, pc>>
    /\ UNCHANGED <<aside, tracing, call, result, queryParams, env, sanitized, validation, urlValidation,
                   builderThrew, oembedResponse, response>>

\* a catch block that always answers in JSON
CatchAll_Json(error) ==
    formatErrorResponse(HTTP_INTERNAL_SERVER_ERROR, "Internal server error",
                        Str("json"), "INTERNAL_ERROR", Undefined)

\* a catch block that puts the caught error's message in the response
CatchAll_EchoMessage(error) ==
    formatErrorResponse(HTTP_INTERNAL_SERVER_ERROR, error.message,
                        Or(Get(queryParams, "format"), Str("json")),
                        "INTERNAL_ERROR", Undefined)

\* the handler's catch block; error is what was thrown (it is logged, and
\* nothing of it is put in the response)
CatchAll(error) ==
    formatErrorResponse(HTTP_INTERNAL_SERVER_ERROR, "Internal server error",
                        Or(Get(queryParams, "format"), Str("json")),
                        "INTERNAL_ERROR", Undefined)

\* Phase 4: createTypeSpecificResponse; what it throws reaches the
\* handler's catch block
Build ==
    /\ pc = "build"
    /\ LET r == createTypeSpecificResponse(metadata, Get(sanitized, "maxwidth"),
                                           Get(sanitized, "maxheight"), env)
       IN  IF r.threw
           THEN /\ builderThrew' = TRUE
                /\ response' = CatchAll(r)
                /\ segment' = addXRayAnnotations(segment, ErrorAnnotations(r))
                /\ pc' = "done"
                /\ UNCHANGED oembedResponse
           ELSE /\ oembedResponse' = r.value
                /\ pc' = "format"
                /\ UNCHANGED <<builderThrew, response, segment>>
    /\ UNCHANGED <<invocations, events, tracing, call, result, queryParams, env, sanitized, validation, urlValidation, attempt,
                   fetchPath, metadata>>

\* Phase 5: formatResponse
Format ==
    /\ pc = "format"
    /\ response' = formatResponse(oembedResponse, sanitized["format"])
    /\ segment' = addXRayMetadata(
                      addXRayAnnotations(segment,
                                         [success |-> TRUE,
                                          contentType |-> Get(oembedResponse, "type"),
                                          responseFormat |-> sanitized["format"]]),
                      "oembed_response",
                      [type |-> Get(oembedResponse, "type"),
                       hasHtml |-> Truthy(Get(oembedResponse, "html")),
                       hasThumbnail |-> Truthy(Get(oembedResponse, "thumbnail_url")),
                       width |-> Get(oembedResponse, "width"),
                       height |-> Get(oembedResponse, "height"),
                       title |-> Get(oembedResponse, "title"),
                       provider |-> Get(oembedResponse, "provider_name")])
    /\ pc' = "done"
    /\ UNCHANGED <<invocations, events, tracing, call, result, queryParams, env, sanitized, validation, urlValidation, attempt,
                   fetchPath, metadata, builderThrew, oembedResponse>>

Next ==
    \/ Validate
    \/ Authorize
    \/ GetContentMetadata
    \/ BackendReturns
    \/ BackendThrows
    \/ Build
    \/ Format

Spec == Init /\ [][Next]_vars

\* requests with no URL, an empty one, one that does not parse, one of
\* another site and one of the provider's site, in every format, with a valid
\* and an invalid dimension
LiveRequests ==
    Requests({Str(""), GarbageUrl, SiteRequestUrl,
              Url(TRUE, "https:", <<"b", ".", "a">>, <<"video", "123">>, MAX_URL_LENGTH, FALSE)},
             Formats,
             {Chars(IntToChars(MIN_DIMENSION)), Chars(IntToChars(0))})

InitLive == InitWith(LiveRequests, Environments)

\* the event loop runs every continuation of the handler that is ready, and
\* the backend's promise settles (it resolves or it rejects)
SpecLive == InitLive /\ [][Next]_vars /\ WF_vars(Next)

(***************************************************************************)
(* The validator on many dimension strings: the same handler, requests     *)
(* with one URL of the provider's site and the wide set of dimension       *)
(* values.                                                                 *)
(***************************************************************************)
InitValidate ==
    InitWith(Requests({Str(""), SiteRequestUrl}, Formats, ValidatorDimensions),
             {ProductionEnv})

SpecValidate == InitValidate /\ [][Next]_vars

(***************************************************************************)
(* The authorizer on many hostnames: the same handler, requests whose URL  *)
(* ranges over every hostname up to MaxHostLen characters.                 *)
(***************************************************************************)
InitAuthorize ==
    InitWith(Requests(UrlsOver(Hostnames(MaxHostLen)), {Str("xml")}, {}), Environments)

SpecAuthorize == InitAuthorize /\ [][Next]_vars

(***************************************************************************)
(* The handler with X-Ray active and one tracing or logging call of the    *)
(* invocation throwing (utils/xray.mjs, utils/logger.mjs).  tracing names  *)
(* the call that threw and the handler position where it did.              *)
(***************************************************************************)
\* calls traceOperation makes outside a catch that discards: the subsegment
\* is created before the try; what the try block throws is rethrown; close
\* runs in the finally
TraceOperationCalls ==
    {"addNewSubsegment", "subsegment.addMetadata", "logXRayTrace",
     "subsegment.addAnnotation", "subsegment.close"}

\* segment.addAnnotation and segment.addMetadata inside addXRayAnnotations
\* and addXRayMetadata, whose catch discards the error
GuardedCalls == {"segment.addAnnotation", "segment.addMetadata"}

\* the promise the handler returned was rejected with error
Rejected(error) == [t |-> "rejected", error |-> error]

\* traceValidation, traceBackendIntegration or traceResponseConstruction
\* throws what one of its X-Ray calls threw: the handler's catch block
\* answers
TraceOperationThrows ==
    /\ pc \in {"start", "authorize", "fetch", "build"}
    /\ tracing = None
    /\ segment # None
    /\ \E c \in TraceOperationCalls : tracing' = [fails |-> c, at |-> pc]
    /\ response' = CatchAll(Thrown("X-Ray call failed"))
    /\ segment' = addXRayAnnotations(
                      IF pc = "start"
                      THEN addXRayAnnotations(segment, RequestAnnotations(queryParams))
                      ELSE segment,
                      ErrorAnnotations(Thrown("X-Ray call failed")))
    /\ pc' = "done"
    /\ UNCHANGED <<invocations, events, call, result, queryParams, env, sanitized, validation,
                   urlValidation, attempt, fetchPath, metadata, builderThrew,
                   oembedResponse>>

\* addXRayAnnotations at the handler's entry, or addXRayAnnotations and
\* addXRayMetadata after formatResponse, catch what the segment throws; the
\* handler goes on
GuardedCallThrows ==
    /\ pc \in {"start", "format"}
    /\ tracing = None
    /\ segment # None
    /\ \E c \in GuardedCalls : tracing' = [fails |-> c, at |-> pc]
    /\ UNCHANGED <<aside, call, result, queryParams, env, pc, sanitized, validation,
                   urlValidation, attempt, fetchPath, metadata, builderThrew,
                   oembedResponse, response>>

\* a logger call throws: logRequestStart runs before the handler's try, so
\* the handler rejects; logValidationErrors and the calls after
\* formatResponse run inside it, so the catch block answers
LoggerThrows ==
    /\ tracing = None
    /\ \/ /\ pc = "start"
          /\ tracing' = [fails |-> "logRequestStart", at |-> pc]
          /\ response' = Rejected(Thrown("logger call failed"))
          /\ UNCHANGED <<sanitized, validation, segment>>
       \/ /\ pc = "start"
          /\ ~validateOembedParams(queryParams).isValid
          /\ tracing' = [fails |-> "logValidationErrors", at |-> pc]
          /\ sanitized' = sanitizeParams(queryParams)
          /\ validation' = validateOembedParams(queryParams)
          /\ response' = CatchAll(Thrown("logger call failed"))
          /\ segment' = addXRayAnnotations(
                            addXRayAnnotations(segment, RequestAnnotations(queryParams)),
                            ErrorAnnotations(Thrown("logger call failed")))
       \/ /\ pc = "format"
          /\ \E c \in {"logBusinessMetrics", "logRequestEnd"} :
                tracing' = [fails |-> c, at |-> pc]
          /\ response' = CatchAll(Thrown("logger call failed"))
          /\ segment' = addXRayAnnotations(segment,
                                           ErrorAnnotations(Thrown("logger call failed")))
          /\ UNCHANGED <<sanitized, validation>>
    /\ pc' = "done"
    /\ UNCHANGED <<invocations, events, call, result, queryParams, env, urlValidation, attempt,
                   fetchPath, metadata, builderThrew, oembedResponse>>

\* requests that fail validation, fail authorization, or pass both
TracingRequests ==
    Requests({Str(""), SiteRequestUrl} \cup UrlsOver({<<"b", ".", "a">>}),
             {Str("xml"), Str("yaml")},
             {Chars(IntToChars(MIN_DIMENSION)), Chars(IntToChars(0))})

InitTracing ==
    /\ queryParams \in TracingRequests
    /\ env = ProductionEnv
    /\ pc = "start"
    /\ sanitized = None
    /\ validation = None
    /\ urlValidation = None
    /\ attempt = 0
    /\ fetchPath = "none"
    /\ metadata = None
    /\ builderThrew = FALSE
    /\ oembedResponse = None
    /\ response = None
    /\ call = None
    /\ result = None
    /\ tracing = None
    /\ invocations = None
    /\ segment = NewSegment
    /\ events = None

NextTracing ==
    \/ Validate
    \/ Authorize
    \/ GetContentMetadata
    \/ BackendReturns
    \/ BackendThrows
    \/ Build
    \/ Format
    \/ TraceOperationThrows
    \/ GuardedCallThrows
    \/ LoggerThrows

SpecTracing == InitTracing /\ [][NextTracing]_vars

(***************************************************************************)
(* Several invocations of the handler in one process.  One invocation runs *)
(* at a time, from one await to the next; the variables above hold the     *)
(* locals of the running invocation, invocations those of the others.      *)
(* process.env and the X-Ray segment belong to the process.                *)
(***************************************************************************)
\* the handler's locals (its const declarations and its position)
Locals(q, p, s, v, u, a, f, m, b, o, r) ==
    [queryParams |-> q, pc |-> p, sanitized |-> s, validation |-> v,
     urlValidation |-> u, attempt |-> a, fetchPath |-> f, metadata |-> m,
     builderThrew |-> b, oembedResponse |-> o, response |-> r]

\* the locals of an invocation that has not run yet
InitialLocals(q) ==
    Locals(q, "start", None, None, None, 0, "none", None, FALSE, None, None)

\* the locals of the running invocation
RunningLocals ==
    Locals(queryParams, pc, sanitized, validation, urlValidation, attempt, fetchPath,
           metadata, builderThrew, oembedResponse, response)

\* a handler with sanitized declared outside the function: the value is
\* left as the invocation that ran last wrote it
Resume_SharedSanitized(i) ==
    /\ invocations # None
    /\ i \in DOMAIN invocations.suspended
    /\ invocations.suspended[i].pc # "done"
    /\ LET l == invocations.suspended[i]
       IN  /\ queryParams' = l.queryParams
           /\ pc' = l.pc
           /\ validation' = l.validation
           /\ urlValidation' = l.urlValidation
           /\ attempt' = l.attempt
           /\ fetchPath' = l.fetchPath
           /\ metadata' = l.metadata
           /\ builderThrew' = l.builderThrew
           /\ oembedResponse' = l.oembedResponse
           /\ response' = l.response
    /\ invocations' =
           [running |-> i,
            suspended |->
                [j \in (DOMAIN invocations.suspended \ {i}) \cup {invocations.running} |->
                    IF j = invocations.running THEN RunningLocals
                    ELSE invocations.suspended[j]]]
    /\ UNCHANGED <<sanitized, env, segment, events, tracing, call, result>>

\* the running invocation is at an await (or has returned) and the event
\* loop resumes invocation i: each invocation's continuation has its own
\* locals
Resume(i) ==
    /\ invocations # None
    /\ i \in DOMAIN invocations.suspended
    /\ invocations.suspended[i].pc # "done"
    /\ LET l == invocations.suspended[i]
       IN  /\ queryParams' = l.queryParams
           /\ pc' = l.pc
           /\ sanitized' = l.sanitized
           /\ validation' = l.validation
           /\ urlValidation' = l.urlValidation
           /\ attempt' = l.attempt
           /\ fetchPath' = l.fetchPath
           /\ metadata' = l.metadata
           /\ builderThrew' = l.builderThrew
           /\ oembedResponse' = l.oembedResponse
           /\ response' = l.response
    /\ invocations' =
           [running |-> i,
            suspended |->
                [j \in (DOMAIN invocations.suspended \ {i}) \cup {invocations.running} |->
                    IF j = invocations.running THEN RunningLocals
                    ELSE invocations.suspended[j]]]
    /\ UNCHANGED <<env, segment, events, tracing, call, result>>

\* a request without url, two requests for the provider's video that differ
\* in format and maxwidth, and a request for another site's URL
ConcurrentRequests ==
    {[x \in {} |-> Undefined],
     [url |-> SiteRequestUrl],
     [url |-> SiteRequestUrl, format |-> Str("xml"),
      maxwidth |-> Chars(IntToChars(MIN_DIMENSION))],
     [url |-> Url(TRUE, "https:", <<"b", ".", "a">>, <<"photo", "7">>, 17, FALSE),
      format |-> Str("yaml")]}

InitConcurrent ==
    /\ queryParams \in ConcurrentRequests
    /\ env = ProductionEnv
    /\ pc = "start"
    /\ sanitized = None
    /\ validation = None
    /\ urlValidation = None
    /\ attempt = 0
    /\ fetchPath = "none"
    /\ metadata = None
    /\ builderThrew = FALSE
    /\ oembedResponse = None
    /\ response = None
    /\ call = None
    /\ result = None
    /\ tracing = None
    /\ invocations \in
           [running : {1},
            suspended : [2..MaxInvocations ->
                            {InitialLocals(q) : q \in ConcurrentRequests}]]
    /\ segment \in {None, NewSegment}
    /\ events = None

NextConcurrent ==
    \/ Validate
    \/ Authorize
    \/ GetContentMetadata
    \/ BackendReturns
    \/ BackendThrows
    \/ Build
    \/ Format
    \/ \E i \in 1..MaxInvocations : Resume(i)

SpecConcurrent == InitConcurrent /\ [][NextConcurrent]_vars

(***************************************************************************)
(* The builder on many metadata objects: the handler resumed where the     *)
(* backend has just answered a validated, authorized request.              *)
(***************************************************************************)
BuilderRequests ==
    Requests({SiteRequestUrl}, {Str("xml")}, {Chars(IntToChars(MIN_DIMENSION))})

InitBuilder ==
    /\ queryParams \in {q \in BuilderRequests : validateOembedParams(q).isValid}
    /\ env = ProductionEnv
    /\ pc = "build"
    /\ sanitized = sanitizeParams(queryParams)
    /\ validation = validateOembedParams(queryParams)
    /\ urlValidation = validateAndAuthorizeUrl(sanitized["url"], env)
    /\ attempt = 0
    /\ fetchPath = "backend"
    /\ metadata \in BuilderMetadata
    /\ builderThrew = FALSE
    /\ oembedResponse = None
    /\ response = None
    /\ call = None
    /\ result = None
    /\ tracing = None
    /\ invocations = None
    /\ segment = None
    /\ events = None

NextBuilder ==
    \/ Build
    \/ Format

SpecBuilder == InitBuilder /\ [][NextBuilder]_vars

(***************************************************************************)
(* calculateConstrainedDimension called on its own, on every pair of       *)
(* values its parameters admit (number, null or undefined).                *)
(***************************************************************************)
DimensionArguments ==
    {Undefined, Null} \cup {Num(n) : n \in 0..MaxDimension}

InitDimension ==
    /\ queryParams = None
    /\ env = None
    /\ pc = "call"
    /\ sanitized = None
    /\ validation = None
    /\ urlValidation = None
    /\ attempt = 0
    /\ fetchPath = "none"
    /\ metadata = None
    /\ builderThrew = FALSE
    /\ oembedResponse = None
    /\ response = None
    /\ call \in [fn : {"calculateConstrainedDimension"},
                 originalDimension : DimensionArguments,
                 constraint : DimensionArguments]
    /\ result = None
    /\ tracing = None
    /\ invocations = None
    /\ segment = None
    /\ events = None

CallCalculateConstrainedDimension ==
    /\ pc = "call"
    /\ call.fn = "calculateConstrainedDimension"
    /\ result' = calculateConstrainedDimension(call.originalDimension, call.constraint)
    /\ pc' = "done"
    /\ UNCHANGED <<aside, tracing, call, queryParams, env, sanitized, validation, urlValidation, attempt,
                   fetchPath, metadata, builderThrew, oembedResponse, response>>

NextDimension ==
    CallCalculateConstrainedDimension

SpecDimension == InitDimension /\ [][NextDimension]_vars

(***************************************************************************)
(* The html generators called on their own.                                *)
(***************************************************************************)
GeneratorCalls(fn, metadatas) ==
    [fn : {fn}, metadata : metadatas, width : GeneratorDimensions,
     height : GeneratorDimensions]

InitHtml ==
    /\ queryParams = None
    /\ env = None
    /\ pc = "call"
    /\ sanitized = None
    /\ validation = None
    /\ urlValidation = None
    /\ attempt = 0
    /\ fetchPath = "none"
    /\ metadata = None
    /\ builderThrew = FALSE
    /\ oembedResponse = None
    /\ response = None
    /\ call \in GeneratorCalls("generateVideoHtml", VideoGeneratorMetadata)
                  \cup GeneratorCalls("generateRichHtml", RichGeneratorMetadata)
                  \cup GeneratorCalls("generateWidgetHtml", WidgetGeneratorMetadata)
                  \cup GeneratorCalls("generateGalleryHtml", GalleryGeneratorMetadata)
    /\ result = None
    /\ tracing = None
    /\ invocations = None
    /\ segment = None
    /\ events = None

\* a call returns: result holds its outcome
Return(outcome) ==
    /\ result' = outcome
    /\ pc' = "done"
    /\ UNCHANGED <<aside, tracing, call, queryParams, env, sanitized, validation, urlValidation, attempt,
                   fetchPath, metadata, builderThrew, oembedResponse, response>>

CallGenerateVideoHtml ==
    /\ pc = "call"
    /\ call.fn = "generateVideoHtml"
    /\ Return(Returned(generateVideoHtml(call.metadata, call.width, call.height)))

CallGenerateRichHtml ==
    /\ pc = "call"
    /\ call.fn = "generateRichHtml"
    /\ Return(Returned(generateRichHtml(call.metadata, call.width, call.height)))

CallGenerateWidgetHtml ==
    /\ pc = "call"
    /\ call.fn = "generateWidgetHtml"
    /\ Return(Returned(generateWidgetHtml(call.metadata, call.width, call.height)))

CallGenerateGalleryHtml ==
    /\ pc = "call"
    /\ call.fn = "generateGalleryHtml"
    /\ Return(generateGalleryHtml(call.metadata, call.width, call.height))

NextHtml ==
    \/ CallGenerateVideoHtml
    \/ CallGenerateRichHtml
    \/ CallGenerateWidgetHtml
    \/ CallGenerateGalleryHtml

SpecHtml == InitHtml /\ [][NextHtml]_vars

(***************************************************************************)
(* createTypeSpecificResponse called MaxCalls times on one metadata        *)
(* object, the provider configuration unchanged.  metadata is the caller's *)
(* object, call.metadata what it held when first passed; events holds one  *)
(* entry per call made.                                                    *)
(***************************************************************************)
InitBuilderCalls ==
    /\ queryParams = None
    /\ env \in {ProductionEnv, [x \in {} |-> Undefined]}
    /\ pc = "call"
    /\ sanitized = None
    /\ validation = None
    /\ urlValidation = None
    /\ attempt = 0
    /\ fetchPath = "none"
    /\ metadata \in CallerMetadata
    /\ builderThrew = FALSE
    /\ oembedResponse = None
    /\ response = None
    /\ call \in [fn : {"createTypeSpecificResponse"}, metadata : {metadata},
                 maxwidth : {Undefined, Num(MIN_DIMENSION)},
                 maxheight : {Undefined, Num(MAX_HEIGHT_LIMIT)}]
    /\ result = None
    /\ tracing = None
    /\ invocations = None
    /\ segment = None
    /\ events = <<>>

CallCreateTypeSpecificResponse ==
    /\ pc = "call"
    /\ call.fn = "createTypeSpecificResponse"
    /\ Len(events) < MaxCalls
    /\ LET effect == createTypeSpecificResponseEffect(metadata, call.maxwidth,
                                                      call.maxheight, env)
       IN  /\ result' = effect.outcome
           /\ metadata' = effect.metadata
           /\ events' = Append(events, [outcome |-> effect.outcome, keys |-> effect.keys])
    /\ pc' = IF Len(events) + 1 = MaxCalls THEN "done" ELSE "call"
    /\ UNCHANGED <<invocations, segment, tracing, call, queryParams, env, sanitized,
                   validation, urlValidation, attempt, fetchPath, builderThrew,
                   oembedResponse, response>>

NextBuilderCalls ==
    CallCreateTypeSpecificResponse

SpecBuilderCalls == InitBuilderCalls /\ [][NextBuilderCalls]_vars

(***************************************************************************)
(* retryWithBackoff called on its own (utils/helpers.mjs).  call holds the *)
(* options it was called with and its local lastError, attempt its loop    *)
(* counter, events what it did so far: each call of fn, how that call      *)
(* settled, each delay it waited.  fn resolves or rejects as it likes.     *)
(***************************************************************************)
\* const { maxRetries = 3, baseDelay = 100, ... } = options
OptionOr(options, key, default) ==
    IF Get(options, key) = Undefined THEN default ELSE options[key].n

maxRetries == OptionOr(call.options, "maxRetries", 3)
baseDelay == OptionOr(call.options, "baseDelay", 100)
maxDelay == OptionOr(call.options, "maxDelay", 5000)
backoffFactor == OptionOr(call.options, "backoffFactor", 2)

\* Math.min(baseDelay * Math.pow(backoffFactor, attempt), maxDelay)
BackoffDelay ==
    LET grown == baseDelay * backoffFactor ^ attempt
    IN  IF grown < maxDelay THEN grown ELSE maxDelay

\* delay * (0.5 + Math.random() * 0.5), in hundredths of the delay
JitterPercents == {50, 75, 99}

\* no options, the options fetchContentFromBackendWithRetry passes, and
\* every maxRetries up to MaxRetryOption
RetryOptions ==
    {[x \in {} |-> Undefined],
     [maxRetries |-> Num(MAX_RETRIES), baseDelay |-> Num(100), maxDelay |-> Num(1000),
      backoffFactor |-> Num(2)]}
        \cup {[maxRetries |-> Num(n)] : n \in 0..MaxRetryOption}

FnValues == {Undefined, Str("metadata")}
FnErrors == {"Error: backend unavailable", "Error: timeout"}

InitRetry ==
    /\ queryParams = None
    /\ env = ProductionEnv
    /\ pc = "loop"
    /\ sanitized = None
    /\ validation = None
    /\ urlValidation = None
    /\ attempt = 0
    /\ fetchPath = "none"
    /\ metadata = None
    /\ builderThrew = FALSE
    /\ oembedResponse = None
    /\ response = None
    /\ call \in [fn : {"retryWithBackoff"}, options : RetryOptions, lastError : {Undefined}]
    /\ result = None
    /\ tracing = None
    /\ invocations = None
    /\ segment = None
    /\ events = <<>>

\* the loop test: attempt <= maxRetries calls fn and awaits it; otherwise
\* the statement after the loop throws lastError
RetryLoop ==
    /\ pc = "loop"
    /\ call.fn = "retryWithBackoff"
    /\ IF attempt <= maxRetries
       THEN /\ events' = Append(events, [e |-> "call", x |-> attempt])
            /\ pc' = "await_fn"
            /\ UNCHANGED result
       ELSE /\ result' = Thrown(call.lastError)
            /\ pc' = "done"
            /\ UNCHANGED events
    /\ UNCHANGED <<invocations, segment, tracing, call, attempt, queryParams, env, sanitized,
                   validation, urlValidation, fetchPath, metadata, builderThrew,
                   oembedResponse, response>>

\* return await fn(): fn's promise resolves
FnResolves ==
    /\ pc = "await_fn"
    /\ \E v \in FnValues :
           /\ events' = Append(events, [e |-> "resolved", x |-> v])
           /\ result' = Returned(v)
    /\ pc' = "done"
    /\ UNCHANGED <<invocations, segment, tracing, call, attempt, queryParams, env, sanitized,
                   validation, urlValidation, fetchPath, metadata, builderThrew,
                   oembedResponse, response>>

\* a catch block that waits the delay after every failure
FnRejects_AlwaysDelays ==
    /\ pc = "await_fn"
    /\ \E error \in FnErrors, percent \in JitterPercents :
           /\ call' = [call EXCEPT !.lastError = error]
           /\ events' = Append(Append(events, [e |-> "rejected", x |-> error]),
                               [e |-> "delay", x |-> (BackoffDelay * percent) \div 100])
           /\ pc' = "await_delay"
           /\ UNCHANGED result
    /\ UNCHANGED <<invocations, segment, tracing, attempt, queryParams, env, sanitized,
                   validation, urlValidation, fetchPath, metadata, builderThrew,
                   oembedResponse, response>>

\* fn throws or its promise rejects: the catch block keeps the error; on the
\* last attempt it rethrows, otherwise it starts the timer of the delay
FnRejects ==
    /\ pc = "await_fn"
    /\ \E error \in FnErrors, percent \in JitterPercents :
           /\ call' = [call EXCEPT !.lastError = error]
           /\ IF attempt = maxRetries
              THEN /\ events' = Append(events, [e |-> "rejected", x |-> error])
                   /\ result' = Thrown(error)
                   /\ pc' = "done"
              ELSE /\ events' = Append(Append(events, [e |-> "rejected", x |-> error]),
                                       [e |-> "delay", x |-> (BackoffDelay * percent) \div 100])
                   /\ pc' = "await_delay"
                   /\ UNCHANGED result
    /\ UNCHANGED <<invocations, segment, tracing, attempt, queryParams, env, sanitized,
                   validation, urlValidation, fetchPath, metadata, builderThrew,
                   oembedResponse, response>>

\* the timer fires: attempt++ and back to the loop test
DelayElapses ==
    /\ pc = "await_delay"
    /\ attempt' = attempt + 1
    /\ pc' = "loop"
    /\ UNCHANGED <<aside, tracing, call, result, queryParams, env, sanitized, validation,
                   urlValidation, fetchPath, metadata, builderThrew, oembedResponse,
                   response>>

NextRetry ==
    \/ RetryLoop
    \/ FnResolves
    \/ FnRejects
    \/ DelayElapses

SpecRetry == InitRetry /\ [][NextRetry]_vars

(***************************************************************************)
(* Properties.                                                             *)
(***************************************************************************)
\* r is an error response with this status and this error code
IsError(r, status, code) ==
    /\ r # None
    /\ r.statusCode = status
    /\ "error" \in DOMAIN r.body
    /\ r.body.error.code = code

\* r is a success response
IsSuccess(r) == r # None /\ r.statusCode = 200 /\ "error" \notin DOMAIN r.body

\* the validator reported no error for this field
FieldPasses(field) ==
    \A i \in 1..Len(validation.errors) : validation.errors[i].field # field

\* the decimal integer strings among the inputs, by value
DecimalIntegers == DimensionValues \cup {0 - n : n \in DimensionValues}
DecimalString(n) == IF n < 0 THEN <<"-">> \o IntToChars(0 - n) ELSE IntToChars(n)

\* h ends with d
HostEndsWith(h, d) == \E k \in 0..Len(h) : SubSeq(h, k + 1, Len(h)) = d

\* C1: a finished request whose url is absent or empty has the response
\* 400 MISSING_URL, whatever its format, maxwidth and maxheight are.
C1_MissingUrl ==
    (pc = "done" /\ ~Truthy(Get(queryParams, "url")))
        => IsError(response, 400, "MISSING_URL")

\* C1 witness: no url, an unsupported format and two invalid dimensions.
C1_Witness ==
    /\ pc = "done"
    /\ ~Has(queryParams, "url")
    /\ Get(queryParams, "format") = Str("yaml")
    /\ Get(queryParams, "maxwidth") = Chars(<<"0">>)
    /\ Get(queryParams, "maxheight") = Chars(<<"a", "b", "c">>)
    /\ IsError(response, 400, "MISSING_URL")

\* C2 as stated: a finished request whose format is present and is not
\* exactly json or xml has the response 501 INVALID_FORMAT.
C2_Original ==
    (pc = "done" /\ Has(queryParams, "format")
                /\ queryParams["format"] \notin {Str("json"), Str("xml")})
        => IsError(response, 501, "INVALID_FORMAT")

\* C2 amended: a finished request with a non-empty url whose format is a
\* non-empty string other than json and xml has the response
\* 501 INVALID_FORMAT.
C2_InvalidFormat ==
    (pc = "done" /\ Truthy(Get(queryParams, "url"))
                /\ Truthy(Get(queryParams, "format"))
                /\ queryParams["format"] \notin {Str("json"), Str("xml")})
        => IsError(response, 501, "INVALID_FORMAT")

\* C2 witness: a URL, the format XML and an invalid maxwidth.
C2_Witness ==
    /\ pc = "done"
    /\ Truthy(Get(queryParams, "url"))
    /\ Get(queryParams, "format") = Str("XML")
    /\ Get(queryParams, "maxwidth") = Chars(<<"0">>)
    /\ IsError(response, 501, "INVALID_FORMAT")

\* C3 as stated: with a url and a valid format, a maxwidth (maxheight) that
\* is a decimal integer passes validation exactly when it is in 1..2048,
\* and one outside 1..2048 gives the response 400 INVALID_MAXWIDTH
\* (INVALID_MAXHEIGHT).
C3_Original ==
    (pc # "start" /\ Truthy(Get(queryParams, "url"))
                 /\ Or(Get(queryParams, "format"), Str("json")) \in {Str("json"), Str("xml")})
        => \A n \in DecimalIntegers :
              /\ Get(queryParams, "maxwidth") = Chars(DecimalString(n))
                    => /\ FieldPasses("maxwidth") <=> n \in 1..2048
                       /\ n \notin 1..2048 => IsError(response, 400, "INVALID_MAXWIDTH")
              /\ Get(queryParams, "maxheight") = Chars(DecimalString(n))
                    => /\ FieldPasses("maxheight") <=> n \in 1..2048
                       /\ n \notin 1..2048 => IsError(response, 400, "INVALID_MAXHEIGHT")

\* C3 amended: the same, except that a maxheight outside 1..2048 gives the
\* response 400 INVALID_MAXHEIGHT when maxwidth is absent or passes
\* validation (an invalid maxwidth is reported first).
C3_DimensionRange ==
    (pc # "start" /\ Truthy(Get(queryParams, "url"))
                 /\ Or(Get(queryParams, "format"), Str("json")) \in {Str("json"), Str("xml")})
        => \A n \in DecimalIntegers :
              /\ Get(queryParams, "maxwidth") = Chars(DecimalString(n))
                    => /\ FieldPasses("maxwidth") <=> n \in 1..2048
                       /\ n \notin 1..2048 => IsError(response, 400, "INVALID_MAXWIDTH")
              /\ Get(queryParams, "maxheight") = Chars(DecimalString(n))
                    => /\ FieldPasses("maxheight") <=> n \in 1..2048
                       /\ (n \notin 1..2048 /\ FieldPasses("maxwidth"))
                             => IsError(response, 400, "INVALID_MAXHEIGHT")

\* C3 witness: maxwidth at the upper limit passes, maxheight one above it
\* is rejected.
C3_Witness ==
    /\ pc = "done"
    /\ Get(queryParams, "maxwidth") = Chars(<<"2", "0", "4", "8">>)
    /\ Get(queryParams, "maxheight") = Chars(<<"2", "0", "4", "9">>)
    /\ FieldPasses("maxwidth")
    /\ IsError(response, 400, "INVALID_MAXHEIGHT")

\* a value holding a character that no integer holds (a dot, a letter, a
\* percent sign), or no character at all
NotAnInteger(c) ==
    \/ c = <<>>
    \/ \E i \in 1..Len(c) : ~IsDigit(c[i]) /\ c[i] \notin {"-", "+", " "}

\* C4 as stated: a maxwidth or maxheight that is non-numeric or not an
\* integer (12.5, 12abc) never passes validation.
C4_Original ==
    pc # "start"
        => \A f \in {"maxwidth", "maxheight"} :
              (Has(queryParams, f) /\ NotAnInteger(queryParams[f].c)) => ~FieldPasses(f)

\* C4, the failing case: maxwidth 12.5 passes validation and the request
\* is answered 200.
C4_Witness ==
    /\ pc = "done"
    /\ Get(queryParams, "maxwidth") = Chars(<<"1", "2", ".", "5">>)
    /\ validation.isValid
    /\ IsSuccess(response)

\* the URL the handler authorizes is a parseable http/https URL whose
\* hostname does not end with the configured provider domain
ForeignUrl ==
    /\ Has(env, "PROVIDER_DOMAIN")
    /\ Has(sanitized, "url")
    /\ sanitized["url"].t = "url"
    /\ sanitized["url"].wf
    /\ sanitized["url"].scheme \in {"http:", "https:"}
    /\ ~HostEndsWith(sanitized["url"].host, env["PROVIDER_DOMAIN"].c)

\* C5 as stated: a finished request that passed parameter validation with
\* such a URL has the response 404 UNAUTHORIZED_DOMAIN.
C5_Original ==
    (pc = "done" /\ validation.isValid /\ ForeignUrl)
        => IsError(response, 404, "UNAUTHORIZED_DOMAIN")

\* C5 amended: ... with such a URL of at most 2048 characters has the
\* response 404 UNAUTHORIZED_DOMAIN (a longer one is answered
\* 400 MALFORMED_URL).
C5_ForeignDomain ==
    (pc = "done" /\ validation.isValid /\ ForeignUrl /\ sanitized["url"].len <= 2048)
        => IsError(response, 404, "UNAUTHORIZED_DOMAIN")

\* C5 witness: a hostname that holds the provider domain, but not at its end.
C5_Witness ==
    /\ pc = "done"
    /\ validation.isValid
    /\ ForeignUrl
    /\ sanitized["url"].host = ProviderDomain \o <<".", "a">>
    /\ IsError(response, 404, "UNAUTHORIZED_DOMAIN")

\* C6 as stated: validateAndAuthorizeUrl answers isValid only for a
\* hostname that is the provider domain or ends with "." and the domain.
C6_Original ==
    (urlValidation # None /\ urlValidation.isValid)
        => \/ urlValidation.hostname = env["PROVIDER_DOMAIN"].c
           \/ HostEndsWith(urlValidation.hostname, <<".">> \o env["PROVIDER_DOMAIN"].c)

\* C6, the failing case: the hostname of another domain, with the provider
\* domain as a string suffix, is authorized.
C6_Witness ==
    /\ urlValidation # None
    /\ urlValidation.isValid
    /\ urlValidation.hostname = <<"a">> \o ProviderDomain

\* C7 as stated: when the metadata fetch failed (the backend threw on every
\* attempt, or the integration could not parse the URL) the response is
\* 500 INTERNAL_ERROR.
C7_Original ==
    (pc = "done" /\ fetchPath \in {"catch", "parse_failed"})
        => IsError(response, 500, "INTERNAL_ERROR")

\* C7, the failing case: the backend threw on every attempt and the
\* request is answered 200.
C7_Witness ==
    /\ pc = "done"
    /\ fetchPath = "catch"
    /\ attempt = MAX_RETRIES
    /\ IsSuccess(response)

\* the metadata is a photo with no (absent or empty) url, or a video with
\* neither html nor embedUrl
LacksRequiredField(md) ==
    \/ Get(md, "type") = Str("photo") /\ ~Truthy(Get(md, "url"))
    \/ Get(md, "type") = Str("video") /\ ~Truthy(Get(md, "html"))
                                      /\ ~Truthy(Get(md, "embedUrl"))

\* C8: once the builder has run on the metadata of an authorized request,
\* it has thrown exactly when the metadata lacks a required field, and
\* when it has thrown the response is 500 INTERNAL_ERROR.
C8_RequiredFields ==
    (fetchPath # "none" /\ pc \in {"format", "done"})
        => /\ builderThrew <=> LacksRequiredField(metadata)
           /\ builderThrew => pc = "done" /\ IsError(response, 500, "INTERNAL_ERROR")

\* C8 witness: a photo with an empty url.
C8_Witness ==
    /\ pc = "done"
    /\ Get(metadata, "type") = Str("photo")
    /\ Get(metadata, "url") = Str("")
    /\ builderThrew
    /\ IsError(response, 500, "INTERNAL_ERROR")

\* C9: every response has Content-Type text/xml when the raw format
\* parameter is exactly xml and application/json in every other case.
C9_ContentType ==
    pc = "done"
        => response.headers.ContentType =
              IF Get(queryParams, "format") = Str("xml")
              THEN "text/xml" ELSE "application/json"

\* C9 witness: the caught-exception path with format xml.
C9_Witness ==
    /\ pc = "done"
    /\ builderThrew
    /\ Get(queryParams, "format") = Str("xml")
    /\ response.headers.ContentType = "text/xml"

\* C10: the object the builder returned holds thumbnail_width or
\* thumbnail_height only together with thumbnail_url.
C10_ThumbnailAllOrNone ==
    oembedResponse # None
        => ((Has(oembedResponse, "thumbnail_width") \/ Has(oembedResponse, "thumbnail_height"))
               => Has(oembedResponse, "thumbnail_url"))

\* C10 witness: metadata with both thumbnail dimensions and no thumbnail
\* URL; the built object holds none of the three.
C10_Witness ==
    /\ oembedResponse # None
    /\ Has(metadata, "thumbnail_width") /\ Has(metadata, "thumbnail_height")
    /\ ~Has(metadata, "thumbnail_url") /\ ~Has(metadata, "thumbnail")
    /\ ~Has(oembedResponse, "thumbnail_width")
    /\ ~Has(oembedResponse, "thumbnail_height")

\* the default cache age the specification gives each type
TypeDefaultCacheAge(type) ==
    CASE type = Str("photo") -> 7200
      [] type = Str("video") -> 3600
      [] type = Str("rich") -> 1800
      [] type = Str("link") -> 3600
      [] OTHER -> 3600

\* C11 as stated: the built response carries the metadata's cache_age when
\* the metadata has one, and otherwise the default of its type (photo
\* 7200, video 3600, rich 1800, link 3600).
C11_Original ==
    oembedResponse # None
        => oembedResponse["cache_age"] =
              IF Has(metadata, "cache_age") THEN metadata["cache_age"]
              ELSE Num(TypeDefaultCacheAge(oembedResponse["type"]))

\* C11, the failing case: a photo without cache_age is built with 3600.
C11_Witness ==
    /\ oembedResponse # None
    /\ Get(metadata, "type") = Str("photo")
    /\ ~Has(metadata, "cache_age")
    /\ oembedResponse["type"] = Str("photo")
    /\ oembedResponse["cache_age"] = Num(3600)

\* C12 as stated: a success response has status 200 and the Cache-Control
\* max-age of the response object's cache_age when it has one (a number),
\* 3600 otherwise.
C12_Original ==
    (pc = "done" /\ IsSuccess(response))
        => /\ response.statusCode = 200
           /\ response.headers.CacheControl.maxAge =
                 IF Has(oembedResponse, "cache_age")
                        /\ oembedResponse["cache_age"].t = "number"
                 THEN oembedResponse["cache_age"]
                 ELSE Num(3600)

\* C12, the failing case: the body says cache_age 0, the header max-age=3600.
C12_Witness ==
    /\ pc = "done"
    /\ IsSuccess(response)
    /\ oembedResponse["cache_age"] = Num(0)
    /\ response.headers.CacheControl.maxAge = Num(3600)

\* C13 as stated: for the object the builder returned, the field names of
\* the JSON success body are the element names of the XML success body.
C13_Original ==
    oembedResponse # None
        => DOMAIN formatJsonResponse(oembedResponse).body.data =
              DOMAIN formatXmlResponse(oembedResponse).body.oembed

\* C13, the failing case: cache_age null is a member of the JSON body and
\* no element of the XML body.
C13_Witness ==
    /\ oembedResponse # None
    /\ oembedResponse["cache_age"] = Null
    /\ "cache_age" \in DOMAIN formatJsonResponse(oembedResponse).body.data
    /\ "cache_age" \notin DOMAIN formatXmlResponse(oembedResponse).body.oembed

\* the response is an error response
IsErrorResponse(r) == r # None /\ "error" \in DOMAIN r.body

\* C14: every error response pairs its code with the mapped status, and
\* no other code or pair occurs.
C14_CodeStatusPairs ==
    (pc = "done" /\ IsErrorResponse(response))
        => <<response.body.error.code, response.statusCode>> \in
              {<<"MISSING_URL", 400>>, <<"MALFORMED_URL", 400>>,
               <<"INVALID_MAXWIDTH", 400>>, <<"INVALID_MAXHEIGHT", 400>>,
               <<"INVALID_FORMAT", 501>>, <<"UNAUTHORIZED_DOMAIN", 404>>,
               <<"MISSING_PROVIDER_DOMAIN", 500>>, <<"INTERNAL_ERROR", 500>>}

\* C14 witness: an authorization failure in XML.
C14_Witness ==
    /\ pc = "done"
    /\ urlValidation # None
    /\ Get(queryParams, "format") = Str("xml")
    /\ IsError(response, 404, "UNAUTHORIZED_DOMAIN")

\* C15: every error response, JSON or XML, carries code, message,
\* timestamp and requestId under error, and details only when the handler
\* supplied a non-empty details value (the authorizer's).
C15_ErrorFields ==
    (pc = "done" /\ IsErrorResponse(response))
        => LET fields == DOMAIN response.body.error
           IN  /\ {"code", "message", "timestamp", "requestId"} \subseteq fields
               /\ fields \subseteq {"code", "message", "timestamp", "requestId", "details"}
               /\ "details" \in fields
                     => /\ urlValidation # None
                        /\ "details" \in DOMAIN urlValidation
                        /\ urlValidation.details # ""
                        /\ response.body.error.details = Str(urlValidation.details)

\* C15 witness: an XML error response that carries details.
C15_Witness ==
    /\ pc = "done"
    /\ IsErrorResponse(response)
    /\ response.body.format = "xml"
    /\ "details" \in DOMAIN response.body.error
    /\ response.body.error.code = "MALFORMED_URL"

\* C16: for video metadata without html and with an http/https embedUrl,
\* the built html is an iframe whose width and height are the response's
\* width and height and whose sandbox is exactly "allow-scripts
\* allow-same-origin allow-presentation".
C16_VideoIframe ==
    (oembedResponse # None
        /\ Get(metadata, "type") = Str("video")
        /\ ~Truthy(Get(metadata, "html"))
        /\ Get(metadata, "embedUrl").t = "url"
        /\ Get(metadata, "embedUrl").wf
        /\ Get(metadata, "embedUrl").scheme \in {"http:", "https:"})
        => LET html == oembedResponse["html"]
           IN  /\ html.t = "html"
               /\ html.tag = "iframe"
               /\ html.width = oembedResponse["width"]
               /\ html.height = oembedResponse["height"]
               /\ html.sandbox = "allow-scripts allow-same-origin allow-presentation"

\* C16 witness: a video 1920 wide under maxwidth 1, no height in the
\* metadata; the iframe is 1 by 360.
C16_Witness ==
    /\ oembedResponse # None
    /\ Get(metadata, "type") = Str("video")
    /\ ~Has(metadata, "html")
    /\ Get(metadata, "embedUrl") = GoodUrl
    /\ Get(metadata, "width") = Num(1920)
    /\ ~Has(metadata, "height")
    /\ Get(sanitized, "maxwidth") = Num(1)
    /\ oembedResponse["html"].t = "html"
    /\ oembedResponse["html"].width = Num(1)
    /\ oembedResponse["html"].height = Num(360)

\* parameter validation has succeeded, and then URL authorization
ValidatedThenAuthorized ==
    /\ validation # None /\ validation.isValid
    /\ urlValidation # None /\ urlValidation.isValid

\* neither getContentMetadata nor createTypeSpecificResponse has been called
NothingFetchedOrBuilt ==
    /\ fetchPath = "none" /\ attempt = 0 /\ metadata = None
    /\ ~builderThrew /\ oembedResponse = None

\* C17: the handler is in or past getContentMetadata or
\* createTypeSpecificResponse only after validation and then authorization
\* have succeeded (authorization runs only on validated parameters); a run
\* that failed either of them has its error response and has called
\* neither the backend nor the builder.
C17_ValidateAuthorizeFirst ==
    /\ (pc \in {"fetch", "backend", "build", "format"} \/ ~NothingFetchedOrBuilt)
          => ValidatedThenAuthorized
    /\ urlValidation # None => (validation # None /\ validation.isValid)
    /\ (pc = "done" /\ ~ValidatedThenAuthorized)
          => (IsErrorResponse(response) /\ NothingFetchedOrBuilt)

\* C17 witness: a run that failed authorization and is finished.
C17_Witness ==
    /\ pc = "done"
    /\ validation.isValid
    /\ urlValidation # None /\ ~urlValidation.isValid
    /\ IsErrorResponse(response)
    /\ NothingFetchedOrBuilt

\* C18: whatever was thrown, a run that ended in the catch block has an
\* error body with code INTERNAL_ERROR, message "Internal server error"
\* and no details, the same for every run, so that two such runs with the
\* same query parameters have identical responses.
C18_CatchAllUniform ==
    (pc = "done" /\ builderThrew)
        => /\ IsError(response, 500, "INTERNAL_ERROR")
           /\ response.body.error.message = "Internal server error"
           /\ "details" \notin DOMAIN response.body.error
           /\ response =
                 formatErrorResponse(500, "Internal server error",
                                     Or(Get(queryParams, "format"), Str("json")),
                                     "INTERNAL_ERROR", Undefined)

\* C18 witness: the error thrown for a video without embedUrl and html.
C18_Witness ==
    /\ pc = "done"
    /\ builderThrew
    /\ Get(metadata, "type") = Str("video")
    /\ createTypeSpecificResponse(metadata, Undefined, Undefined, env).message
          = "Video type requires embedUrl or html field"
    /\ response.body.error.message = "Internal server error"

\* C19: the error of a request that fails validation is that of the first
\* invalid parameter in the order url, format, maxwidth, maxheight.
C19_FirstErrorOrder ==
    (pc = "done" /\ validation # None /\ ~validation.isValid)
        => IF ~Truthy(Get(queryParams, "url"))
           THEN IsError(response, 400, "MISSING_URL")
           ELSE IF Truthy(Get(queryParams, "format"))
                    /\ queryParams["format"] \notin {Str("json"), Str("xml")}
           THEN IsError(response, 501, "INVALID_FORMAT")
           ELSE IF ~FieldPasses("maxwidth")
           THEN IsError(response, 400, "INVALID_MAXWIDTH")
           ELSE /\ ~FieldPasses("maxheight")
                /\ IsError(response, 400, "INVALID_MAXHEIGHT")

\* C19 witness: an invalid format with an invalid maxwidth and an invalid
\* maxheight yields INVALID_FORMAT.
C19_Witness ==
    /\ pc = "done"
    /\ Truthy(Get(queryParams, "url"))
    /\ Get(queryParams, "format") = Str("yaml")
    /\ Get(queryParams, "maxwidth") = Chars(<<"-", "1">>)
    /\ Get(queryParams, "maxheight") = Chars(<<"2", "0", "4", "9">>)
    /\ ~FieldPasses("maxwidth") /\ ~FieldPasses("maxheight")
    /\ IsError(response, 501, "INVALID_FORMAT")

\* a dimension argument that is a number
IsNumber(v) == v.t = "number"

\* a dimension argument that is a number other than zero
IsNonZeroNumber(v) == v.t = "number" /\ v.n # 0

\* C20 as stated, every number counting as provided, null and undefined as
\* absent: at most the limit when both are provided, the original when only
\* it is provided, the limit when only it is provided, null when both are
\* absent.
C20_Original ==
    (pc = "done" /\ call # None)
        => LET o == call.originalDimension
               c == call.constraint
           IN  /\ (IsNumber(o) /\ IsNumber(c)) => (IsNumber(result) /\ result.n <= c.n)
               /\ (IsNumber(o) /\ ~IsNumber(c)) => result = o
               /\ (~IsNumber(o) /\ IsNumber(c)) => result = c
               /\ (~IsNumber(o) /\ ~IsNumber(c)) => result = Null

\* C20 amended: the same four cases where "provided" means a number other
\* than zero, and zero counts as absent like null and undefined.
C20_ClampLaw ==
    (pc = "done" /\ call # None)
        => LET o == call.originalDimension
               c == call.constraint
           IN  /\ (IsNonZeroNumber(o) /\ IsNonZeroNumber(c))
                      => (IsNumber(result) /\ result.n <= c.n)
               /\ (IsNonZeroNumber(o) /\ ~IsNonZeroNumber(c)) => result = o
               /\ (~IsNonZeroNumber(o) /\ IsNonZeroNumber(c)) => result = c
               /\ (~IsNonZeroNumber(o) /\ ~IsNonZeroNumber(c)) => result = Null

\* C20 witness: an original above a provided limit has been clamped to it.
C20_Witness ==
    /\ pc = "done"
    /\ call # None
    /\ IsNonZeroNumber(call.originalDimension)
    /\ IsNonZeroNumber(call.constraint)
    /\ call.originalDimension.n > call.constraint.n
    /\ result = call.constraint

\* the four oEmbed response types
OembedTypes == {Str("photo"), Str("video"), Str("rich"), Str("link")}

\* a field the object holds with a value that is neither undefined nor null
Present(o, k) == k \in DOMAIN o /\ o[k].t \notin {"undefined", "null"}

\* C21: a built response has one of the four oEmbed types; metadata with no
\* type or with an unrecognized one yields type "rich" with html, width and
\* height.
C21_TypeCoercion ==
    (pc \in {"format", "done"} /\ oembedResponse # None)
        => /\ Get(oembedResponse, "type") \in OembedTypes
           /\ Get(metadata, "type") \notin OembedTypes
                => /\ oembedResponse["type"] = Str("rich")
                   /\ Present(oembedResponse, "html")
                   /\ Present(oembedResponse, "width")
                   /\ Present(oembedResponse, "height")

\* C21 witness: metadata of type "audio" has been built into a rich response.
C21_Witness ==
    /\ pc = "done"
    /\ Get(metadata, "type") = Str("audio")
    /\ oembedResponse # None
    /\ oembedResponse["type"] = Str("rich")
    /\ Present(oembedResponse, "html")

\* a URL that parses with the http or https scheme
IsWebUrl(u) == u.t = "url" /\ u.wf /\ ~u.encoded /\ u.scheme \in {"http:", "https:"}

\* the metadata value a generator takes its URL from: the first truthy one
FirstTruthy(md, k1, k2) ==
    IF k1 \in DOMAIN md /\ Truthy(md[k1]) THEN md[k1]
    ELSE IF k2 \in DOMAIN md THEN md[k2] ELSE Undefined

\* an images entry the gallery can show
IsUsableImage(e) == ~IsTagged(e) /\ IsWebUrl(FirstTruthy(e, "url", "src"))

\* metadata.images holds at least one usable entry
HasUsableImage(md) ==
    /\ "images" \in DOMAIN md
    /\ md["images"].t = "array"
    /\ \E i \in 1..Len(md["images"].items) : IsUsableImage(md["images"].items[i])

\* C22 as stated: no generator throws; a video without a usable URL, a
\* widget whose URL is unusable and a gallery without a usable image yield
\* their placeholder.
C22_Original ==
    (pc = "done" /\ call # None)
        => /\ ~result.threw
           /\ (call.fn = "generateVideoHtml"
                   /\ ~IsWebUrl(FirstTruthy(call.metadata, "embedUrl", "url")))
                => result.value = VIDEO_NOT_AVAILABLE
           /\ (call.fn = "generateWidgetHtml"
                   /\ Truthy(FirstTruthy(call.metadata, "widgetUrl", "embedUrl"))
                   /\ ~IsWebUrl(FirstTruthy(call.metadata, "widgetUrl", "embedUrl")))
                => result.value = WIDGET_NOT_AVAILABLE
           /\ (call.fn = "generateGalleryHtml" /\ ~HasUsableImage(call.metadata))
                => result.value = GALLERY_NOT_AVAILABLE

\* C22 witness: generateGalleryHtml has thrown on an images array that
\* holds a null entry.
C22_Witness ==
    /\ pc = "done"
    /\ call # None
    /\ call.fn = "generateGalleryHtml"
    /\ Get(call.metadata, "images") = Array(<<[url |-> GoodUrl], Null>>)
    /\ result.threw

\* the src attributes of a piece of generated markup, in document order
SrcAttributes(html) ==
    IF html.t # "html" THEN <<>>
    ELSE IF html.tag = "iframe" THEN <<html.src>>
    ELSE IF html.tag = "div" /\ html.class = "photo-gallery"
    THEN [i \in 1..Len(html.children) |-> html.children[i].src]
    ELSE <<>>

\* s is the serialization of the URL u
IsSerializationOf(s, u) ==
    /\ s.t = "href"
    /\ s.scheme = u.scheme /\ s.host = u.host /\ s.path = u.path

\* the URLs a call's metadata offers, in order: the generator's one URL, or
\* one per images entry
OfferedUrls(c) ==
    CASE c.fn = "generateVideoHtml" -> <<FirstTruthy(c.metadata, "embedUrl", "url")>>
      [] c.fn = "generateWidgetHtml" -> <<FirstTruthy(c.metadata, "widgetUrl", "embedUrl")>>
      [] c.fn = "generateGalleryHtml" ->
            IF "images" \in DOMAIN c.metadata /\ c.metadata["images"].t = "array"
            THEN [i \in 1..Len(c.metadata["images"].items) |->
                     IF IsTagged(c.metadata["images"].items[i]) THEN Undefined
                     ELSE FirstTruthy(c.metadata["images"].items[i], "url", "src")]
            ELSE <<>>
      [] OTHER -> <<>>

\* C23: the src attributes of returned markup are the serializations of the
\* offered URLs that parse with scheme http or https, in order, and of no
\* other; a video or widget whose URL is not such a URL and a gallery with
\* no such URL return their placeholder.
C23_SrcIsWebUrl ==
    (pc = "done" /\ call # None /\ ~result.threw)
        => LET srcs == SrcAttributes(result.value)
               usable == SelectSeq(OfferedUrls(call), IsWebUrl)
           IN  /\ Len(srcs) = Len(usable)
               /\ \A i \in 1..Len(srcs) :
                      /\ IsSerializationOf(srcs[i], usable[i])
                      /\ srcs[i].scheme \in {"http:", "https:"}
               /\ (call.fn = "generateVideoHtml" /\ usable = <<>>)
                    => result.value = VIDEO_NOT_AVAILABLE
               /\ (call.fn = "generateWidgetHtml" /\ usable = <<>>
                       /\ Truthy(OfferedUrls(call)[1]))
                    => result.value = WIDGET_NOT_AVAILABLE
               /\ (call.fn = "generateGalleryHtml" /\ usable = <<>>)
                    => result.value = GALLERY_NOT_AVAILABLE

\* C23 witness: a gallery of a javascript: image and an https image has
\* been built with the https image alone.
C23_Witness ==
    /\ pc = "done"
    /\ call # None
    /\ call.fn = "generateGalleryHtml"
    /\ Get(call.metadata, "images") = Array(<<[url |-> ScriptUrl], [url |-> GoodUrl]>>)
    /\ ~result.threw
    /\ Len(SrcAttributes(result.value)) = 1
    /\ SrcAttributes(result.value)[1].scheme = "https:"

\* the response of the invocation when no tracing or logging call throws,
\* as far as the state determines it: the validation error, the
\* authorization error, or what the builder and the formatter make of the
\* metadata fetched; Undefined while the backend has not answered
FaultFreeResponse ==
    LET v == validateOembedParams(queryParams)
        s == sanitizeParams(queryParams)
        u == validateAndAuthorizeUrl(s["url"], env)
        r == createTypeSpecificResponse(metadata, Get(s, "maxwidth"),
                                        Get(s, "maxheight"), env)
    IN  IF ~v.isValid
        THEN formatErrorResponse(StatusOf(v.errors[1].code), v.errors[1].message,
                                 Str(v.format), v.errors[1].code, Undefined)
        ELSE IF ~u.isValid
        THEN formatErrorResponse(StatusOf(u.code), u.error, s["format"], u.code,
                                 IF "details" \in DOMAIN u THEN Str(u.details)
                                 ELSE Undefined)
        ELSE IF metadata = None THEN Undefined
        ELSE IF r.threw THEN CatchAll(r)
        ELSE formatResponse(r.value, s["format"])

\* C24 as stated: an invocation in which a tracing or logging call threw
\* ends with the response of the run in which it did not.
C24_Original ==
    (pc = "done" /\ tracing # None)
        => /\ "statusCode" \in DOMAIN response
           /\ FaultFreeResponse # Undefined => response = FaultFreeResponse

\* C24 witness: subsegment.close threw during the validation of a request
\* without url, and the handler answered 500 INTERNAL_ERROR.
C24_Witness ==
    /\ pc = "done"
    /\ tracing # None
    /\ tracing.fails = "subsegment.close"
    /\ tracing.at = "start"
    /\ ~Truthy(Get(queryParams, "url"))
    /\ IsError(response, 500, "INTERNAL_ERROR")

SoloResponse(q, environment, md) ==
    LET v == validateOembedParams(q)
        s == sanitizeParams(q)
        u == validateAndAuthorizeUrl(s["url"], environment)
        r == createTypeSpecificResponse(md, Get(s, "maxwidth"), Get(s, "maxheight"),
                                        environment)
        internalError ==
            formatErrorResponse(500, "Internal server error",
                                Or(Get(q, "format"), Str("json")), "INTERNAL_ERROR",
                                Undefined)
    IN  IF ~v.isValid
        THEN formatErrorResponse(StatusOf(v.errors[1].code), v.errors[1].message,
                                 Str(v.format), v.errors[1].code, Undefined)
        ELSE IF ~u.isValid
        THEN formatErrorResponse(StatusOf(u.code), u.error, s["format"], u.code,
                                 IF "details" \in DOMAIN u THEN Str(u.details)
                                 ELSE Undefined)
        ELSE IF r.threw THEN internalError
        ELSE formatResponse(r.value, s["format"])

\* the locals of every invocation of the process
AllLocals ==
    {RunningLocals} \cup {invocations.suspended[j] : j \in DOMAIN invocations.suspended}

\* what the invocation holds was computed from its own query parameters
\* and its own backend answer, and its response is the one it produces alone
OwnState(l) ==
    /\ l.sanitized # None => l.sanitized = sanitizeParams(l.queryParams)
    /\ l.validation # None => l.validation = validateOembedParams(l.queryParams)
    /\ l.urlValidation # None
         => l.urlValidation
                = validateAndAuthorizeUrl(sanitizeParams(l.queryParams)["url"], env)
    /\ l.pc = "done" => l.response = SoloResponse(l.queryParams, env, l.metadata)

\* the request annotations the invocation wrote on entry are on the segment
OwnAnnotations(l) ==
    (segment # None /\ l.pc # "start")
        => \A k \in DOMAIN RequestAnnotations(l.queryParams) :
               /\ k \in DOMAIN segment.annotations
               /\ segment.annotations[k] = RequestAnnotations(l.queryParams)[k]

DimensionFields == {"maxwidth", "maxheight"} \cap DOMAIN queryParams

\* C27 as stated: once validation has passed, each dimension handed on by
\* sanitizeParams is the integer validateOembedParams read from the raw
\* value, and lies in 1..2048.
C27_Original ==
    (validation # None /\ validation.isValid /\ sanitized # None)
        => \A f \in DimensionFields :
               /\ sanitized[f].t = "number"
               /\ sanitized[f].n = ParseInt(queryParams[f].c).value
               /\ sanitized[f].n >= 1
               /\ sanitized[f].n <= 2048

\* C27 witness: maxwidth "204%30%30" passed validation as 204 and is
\* handed on as 20400.
C27_Witness ==
    /\ validation # None
    /\ validation.isValid
    /\ Get(queryParams, "maxwidth") = Chars(<<"2", "0", "4", "%", "3", "0", "%", "3", "0">>)
    /\ ParseInt(queryParams["maxwidth"].c).value = 204
    /\ sanitized["maxwidth"] = Num(20400)

HandlerStatusCodes ==
    {HTTP_OK, HTTP_BAD_REQUEST, HTTP_NOT_FOUND, HTTP_INTERNAL_SERVER_ERROR,
     HTTP_NOT_IMPLEMENTED}

IsHandlerResponse(r) ==
    /\ r # None
    /\ {"statusCode", "headers", "body"} \subseteq DOMAIN r
    /\ r.statusCode \in HandlerStatusCodes

\* C28: whatever the query parameters, whatever the backend does (returns a
\* value or throws, as often as it is retried) and whatever the builder does
\* (returns or throws), the handler reaches its return, and what it returns
\* is a response with a statusCode among 200, 400, 404, 500 and 501, headers
\* and a body; it never ends by rejecting
C28_AlwaysResponds ==
    /\ [](pc = "done" => IsHandlerResponse(response))
    /\ <>(pc = "done")

C28_Witness ==
    /\ pc = "done"
    /\ fetchPath = "backend"
    /\ attempt > 0
    /\ builderThrew
    /\ IsHandlerResponse(response)
    /\ response.statusCode = HTTP_INTERNAL_SERVER_ERROR

\* positions of the events of one kind
EventsOf(kind) == {i \in 1..Len(events) : events[i].e = kind}

\* fn is called only when no earlier call of it is still pending: each call
\* but the last is followed at once by the event that settles it
Sequential ==
    \A i \in EventsOf("call") :
        i < Len(events) => events[i + 1].e \in {"resolved", "rejected"}

\* C29: retryWithBackoff calls fn at most maxRetries + 1 times, one call
\* after the other has settled; the first call that resolves is the last
\* thing it does and its value is what it returns; when maxRetries + 1 calls
\* were rejected it rejects with the error of the last of them, and no delay
\* follows that last rejection
C29_Retry ==
    call # None /\ call.fn = "retryWithBackoff" =>
        /\ Cardinality(EventsOf("call")) <= maxRetries + 1
        /\ Sequential
        /\ \A i \in EventsOf("resolved") :
               /\ i = Len(events)
               /\ pc = "done"
               /\ result = Returned(events[i].x)
        /\ (pc = "done" /\ EventsOf("resolved") = {}) =>
               /\ Cardinality(EventsOf("rejected")) = maxRetries + 1
               /\ events[Len(events)].e = "rejected"
               /\ result = Thrown(events[Len(events)].x)
        /\ Cardinality(EventsOf("rejected")) = maxRetries + 1 => pc = "done"

C29_Witness ==
    /\ pc = "done"
    /\ call # None /\ call.fn = "retryWithBackoff"
    /\ maxRetries = MAX_RETRIES
    /\ Cardinality(EventsOf("call")) = MAX_RETRIES + 1
    /\ Cardinality(EventsOf("delay")) = MAX_RETRIES
    /\ events[Len(events)].e = "rejected"
    /\ events[2].x # events[Len(events)].x
    /\ result = Thrown(events[Len(events)].x)

====
